---- MODULE Spec2Model ----
(***************************************************************************)
(* Blockly: RenderedConnection (src/unnamed/part_001) and the objects it   *)
(* works on.  A connection keeps workspace coordinates, an offset within   *)
(* its block, a hidden flag and a membership flag of the connection        *)
(* database (the spatial index) of its type.                               *)
(***************************************************************************)
EXTENDS Integers, Sequences, FiniteSets, TLC

VARIABLES x_, y_, offsetInBlock_, hidden_, inDB_, connections_, called, ret,
          targetConnection, rendered, collapsed_, bubbleVisible, log,
          dragging, selected, isInFlyout, movable, RTL, disposed, placed,
          svgRoot, attributes, flips, pathLog,
          rows, oldRows, rowPhase, rowLog, info,
          theme_, subscribedWorkspaces_, componentDB_, style, themeLog,
          blockXY, svgGroup_, tightLog, asked, check, checkLog,
          parent_, children_, previousSibling_, nextSibling_, depth_,
          expanded_, tree, treeLog, value_, validator_, boxLog

\* the blocks: what is connected to what, and how each block is shown
blockVars == <<targetConnection, rendered, collapsed_, bubbleVisible, log>>

\* the workspace and the blocks as far as bumping reads them
bumpVars == <<dragging, selected, isInFlyout, movable, RTL>>

\* the SVG elements of a block's path object
pathVars == <<svgRoot, attributes, flips, pathLog>>

\* the rows of a block during a measure pass
rowVars == <<rows, oldRows, rowPhase, rowLog>>

\* the theme manager of a workspace, and the styles of the elements it writes
themeVars == <<theme_, subscribedWorkspaces_, componentDB_, style, themeLog>>

\* the SVG roots of the blocks and where they are translated to
tightVars == <<blockXY, svgGroup_, tightLog>>

\* what the spatial indexes were asked to do during the last call
indexVars == <<asked>>

\* the type checks of the connections and the last call of setCheck
checkVars == <<check, checkLog>>

\* the nodes of the toolbox tree
treeVars == <<parent_, children_, previousSibling_, nextSibling_, depth_,
              expanded_, tree, treeLog>>

\* a checkbox field
boxVars == <<value_, validator_, boxLog>>

beyondIndex == <<checkVars, treeVars, boxVars>>

beyondCheck == <<indexVars, treeVars, boxVars>>

beyondTree == <<indexVars, checkVars, boxVars>>

beyondBox == <<indexVars, checkVars, treeVars>>

\* the objects followed for single methods
moreVars == <<indexVars, checkVars, treeVars, boxVars>>

\* what is followed of the render info, the theme manager and the block SVG
lateVars == <<info, themeVars, tightVars, moreVars>>

\* the objects other than connections and blocks
farVars == <<pathVars, rowVars, lateVars>>

\* the connections and what they work on
connVars == <<x_, y_, offsetInBlock_, hidden_, inDB_, connections_, called, ret,
              blockVars, bumpVars, disposed, placed>>

vars == <<connVars, farVars>>

----------------------------------------------------------------------------
(* The blocks and connections of the modelled workspace.                   *)

Blocks == {"b1", "b2", "b3", "b4"}

Conns == {"n2", "p1", "n1", "i1", "o3", "p4"}

Types == {"INPUT_VALUE", "OUTPUT_VALUE", "NEXT_STATEMENT", "PREVIOUS_STATEMENT"}

\* this.type, fixed at construction
type(c) ==
  CASE c = "i1" -> "INPUT_VALUE"
    [] c = "o3" -> "OUTPUT_VALUE"
    [] c \in {"n1", "n2"} -> "NEXT_STATEMENT"
    [] OTHER -> "PREVIOUS_STATEMENT"

\* this.sourceBlock_, fixed at construction
sourceBlock_(c) ==
  CASE c \in {"p1", "n1", "i1"} -> "b1"
    [] c = "n2" -> "b2"
    [] c = "o3" -> "b3"
    [] OTHER -> "b4"

\* Blockly.OPPOSITE_TYPE
OPPOSITE_TYPE(t) ==
  CASE t = "INPUT_VALUE" -> "OUTPUT_VALUE"
    [] t = "OUTPUT_VALUE" -> "INPUT_VALUE"
    [] t = "NEXT_STATEMENT" -> "PREVIOUS_STATEMENT"
    [] OTHER -> "NEXT_STATEMENT"

\* source.workspace.connectionDBList[type]: a rendered workspace holds one
\* database per connection type
connectionDBList == Types

\* this.db_: the database of the connection's own type
db_(c) == type(c)

dbOppositeSameType(c) == type(c)

\* this.dbOpposite_: the database of the compatible type
dbOpposite_(c) == OPPOSITE_TYPE(type(c))

----------------------------------------------------------------------------
(* Bounds of the model.                                                    *)

\* coordinates are multiples of StepX / StepY, 0..MaxCoord steps
MaxCoord == 1
StepX == 3
StepY == 4
\* the largest search radius
MaxRadius == 10
\* Blockly.SNAP_RADIUS and Blockly.BUMP_RANDOMNESS, scaled to the coordinates
\* of the model
SNAP_RADIUS == 2
BUMP_RANDOMNESS == 2
\* the largest coordinate a bumped connection may reach
MaxBumpCoord == 12

Xs == {i * StepX : i \in 0..MaxCoord}
Ys == {j * StepY : j \in 0..MaxCoord}

\* the radii a search is made with
Radii == {0, StepX, StepY, MaxRadius}

\* the connections the environment moves, hides and searches from
Active == {"n2", "n1", "p4"}

\* offsets of a connection within its block
Offsets == {<<0, 0>>, <<StepX, StepY>>}

\* no call in progress
NoLog == [op |-> "none", conn |-> "null", child |-> "null",
          renders |-> <<>>, updates |-> <<>>, renderList |-> <<>>,
          unhidden |-> {}, before |-> {}, hiddenBefore |-> {},
          moved |-> "null",
          dx |-> 0, dy |-> 0, selects |-> <<>>]

NoRet == [op |-> "none", conn |-> "null", cand |-> "null", maxRadius |-> 0,
          dxy |-> <<0, 0>>, db |-> "null", connection |-> "null",
          radiusSq |-> 0, allowed |-> FALSE]

----------------------------------------------------------------------------
(* The connection state as one value, so that a method that calls other    *)
(* methods is the composition of their effects.                            *)

State == [x_ |-> x_, y_ |-> y_, hidden_ |-> hidden_, inDB_ |-> inDB_,
          connections_ |-> connections_, asked |-> <<>>]

\* ConnectionDB.findPositionForConnection_: the index sorted by y; a new
\* entry goes after every entry whose y is not larger
findPositionForConnection_(entries, y) ==
  Cardinality({i \in 1..Len(entries) : entries[i].y <= y}) + 1

\* a request to an index, and whether the connection was in that index when
\* the request was made
Request(op, s, c) ==
  [op |-> op, c |-> c,
   present |-> \E i \in 1..Len(s.connections_[db_(c)]) :
                 s.connections_[db_(c)][i].c = c]

\* ConnectionDB.addConnection: insert at the sorted position, set inDB_
addConnection(s, c) ==
  LET old == s.connections_[db_(c)]
      pos == findPositionForConnection_(old, s.y_[c])
      e == [c |-> c, x |-> s.x_[c], y |-> s.y_[c]]
      new == SubSeq(old, 1, pos - 1) \o <<e>> \o SubSeq(old, pos, Len(old))
  IN [s EXCEPT !.connections_[db_(c)] = new, !.inDB_[c] = TRUE,
               !.asked = Append(@, Request("insert", s, c))]

\* ConnectionDB.removeConnection_: take the connection out, clear inDB_
removeConnection_(s, c) ==
  LET old == s.connections_[db_(c)]
      IsNot(e) == e.c # c
  IN [s EXCEPT !.connections_[db_(c)] = SelectSeq(old, IsNot),
               !.inDB_[c] = FALSE,
               !.asked = Append(@, Request("remove", s, c))]

moveToNoRemove(s, c, x, y) ==
  LET s2 == [s EXCEPT !.x_[c] = x, !.y_[c] = y]
  IN IF ~s2.hidden_[c] /\ ~s2.inDB_[c] THEN addConnection(s2, c) ELSE s2

moveToNoInsert(s, c, x, y) ==
  LET s1 == IF s.inDB_[c] THEN removeConnection_(s, c) ELSE s
  IN [s1 EXCEPT !.x_[c] = x, !.y_[c] = y]

\* RenderedConnection.prototype.moveTo
moveTo(s, c, x, y) ==
  LET s1 == IF s.inDB_[c] THEN removeConnection_(s, c) ELSE s
      s2 == [s1 EXCEPT !.x_[c] = x, !.y_[c] = y]
  IN IF ~s2.hidden_[c] THEN addConnection(s2, c) ELSE s2

\* RenderedConnection.prototype.moveBy
moveBy(s, c, dx, dy) == moveTo(s, c, s.x_[c] + dx, s.y_[c] + dy)

\* RenderedConnection.prototype.moveToOffset
moveToOffset(s, off, c, blockTL) ==
  moveTo(s, c, blockTL[1] + off[c][1], blockTL[2] + off[c][2])

setHiddenFlagOnly(s, c, hidden) == [s EXCEPT !.hidden_[c] = hidden]

setHiddenForgetPlace(s, c, hidden) ==
  LET s1 == [s EXCEPT !.hidden_[c] = hidden]
  IN IF hidden /\ s1.inDB_[c]
     THEN [removeConnection_(s1, c) EXCEPT !.x_[c] = 0, !.y_[c] = 0]
     ELSE IF ~hidden /\ ~s1.inDB_[c] THEN addConnection(s1, c)
     ELSE s1

\* RenderedConnection.prototype.setHidden
setHidden(s, c, hidden) ==
  LET s1 == [s EXCEPT !.hidden_[c] = hidden]
  IN IF hidden /\ s1.inDB_[c] THEN removeConnection_(s1, c)
     ELSE IF ~hidden /\ ~s1.inDB_[c] THEN addConnection(s1, c)
     ELSE s1

----------------------------------------------------------------------------
(* geras.PathObject (src/core/renderers/geras/path_object.js): the three   *)
(* SVG path elements of a block.  An attribute value that is a list of     *)
(* transform functions is the sequence of those functions, in the order    *)
(* they are written in the string.                                         *)

\* the largest number of flipRTL calls followed
MaxFlips == 3

\* the path strings a render pass hands over
Paths == {"m 0,0 h 10", "m 0,0 h 20 v 5", "m 1,1 h 9", "m 1,1 h 19 v 4"}

\* 'translate(1,1)'
Translate11 == <<"translate(1,1)">>

\* 'scale(-1 1)'
Mirror == <<"scale(-1 1)">>

\* element.setAttribute(name, value)
setAttribute(attrs, elem, name, value) ==
  [attrs EXCEPT ![elem] =
     [k \in DOMAIN attrs[elem] \cup {name} |->
        IF k = name THEN value ELSE attrs[elem][k]]]

\* Blockly.utils.dom.createSvgElement('path', attrs, parent): the element is
\* created with the attributes and appended to the parent
createSvgElement(po, elem, attrs) ==
  [svgRoot |-> Append(po.svgRoot, elem),
   attributes |-> [e \in DOMAIN po.attributes \cup {elem} |->
                     IF e = elem THEN attrs ELSE po.attributes[e]]]

\* an SVG root without children
EmptyRoot == [svgRoot |-> <<>>, attributes |-> <<>>]

\* Blockly.geras.PathObject: dark, primary and light path, created in this
\* order
PathObject ==
  LET p1 == createSvgElement(EmptyRoot, "svgPathDark",
              [class |-> "blocklyPathDark", transform |-> Translate11])
      p2 == createSvgElement(p1, "svgPath", [class |-> "blocklyPath"])
  IN createSvgElement(p2, "svgPathLight", [class |-> "blocklyPathLight"])

setPathsDarkHighlight(attrs, mainPath, highlightPath) ==
  LET a1 == setAttribute(attrs, "svgPath", "d", mainPath)
      a2 == setAttribute(a1, "svgPathDark", "d", highlightPath)
  IN setAttribute(a2, "svgPathLight", "d", highlightPath)

\* Blockly.geras.PathObject.prototype.setPaths
setPaths(attrs, mainPath, highlightPath) ==
  LET a1 == setAttribute(attrs, "svgPath", "d", mainPath)
      a2 == setAttribute(a1, "svgPathDark", "d", mainPath)
  IN setAttribute(a2, "svgPathLight", "d", highlightPath)

\* the transform attribute of an element, empty when it has none
transformOf(attrs, elem) ==
  IF "transform" \in DOMAIN attrs[elem] THEN attrs[elem].transform ELSE <<>>

\* element.removeAttribute(name)
removeAttribute(attrs, elem, name) ==
  [attrs EXCEPT ![elem] = [k \in DOMAIN attrs[elem] \ {name} |-> attrs[elem][k]]]

\* a flip that undoes an earlier flip
flipRTLToggle(attrs) ==
  IF transformOf(attrs, "svgPath") = Mirror
  THEN LET a1 == removeAttribute(attrs, "svgPath", "transform")
           a2 == removeAttribute(a1, "svgPathLight", "transform")
       IN setAttribute(a2, "svgPathDark", "transform", Translate11)
  ELSE LET a1 == setAttribute(attrs, "svgPath", "transform", Mirror)
           a2 == setAttribute(a1, "svgPathLight", "transform", Mirror)
       IN setAttribute(a2, "svgPathDark", "transform", Translate11 \o Mirror)

\* a flip that drops the translation of the dark path
flipRTLMirrorOnly(attrs) ==
  LET a1 == setAttribute(attrs, "svgPath", "transform", Mirror)
      a2 == setAttribute(a1, "svgPathLight", "transform", Mirror)
  IN setAttribute(a2, "svgPathDark", "transform", Mirror)

\* Blockly.geras.PathObject.prototype.flipRTL
flipRTL(attrs) ==
  LET a1 == setAttribute(attrs, "svgPath", "transform", Mirror)
      a2 == setAttribute(a1, "svgPathLight", "transform", Mirror)
  IN setAttribute(a2, "svgPathDark", "transform", Translate11 \o Mirror)

\* no call made on the path object yet
NoPathLog == [op |-> "none", mainPath |-> "null", highlightPath |-> "null"]

\* the path object as constructed
InitPath ==
  /\ svgRoot = PathObject.svgRoot
  /\ attributes = PathObject.attributes
  /\ flips = 0
  /\ pathLog = NoPathLog

----------------------------------------------------------------------------
(* thrasos.RenderInfo (src/core/renderers/geras/path_object.js): the rows  *)
(* of a block and the spacers between their elements.  Widths are counted  *)
(* in half pixels, so that half of a whole number of pixels is exact.      *)

\* half pixels per pixel
Px == 2

\* this.constants_ (Blockly.blockRendering.ConstantProvider)
constants_ ==
  [NO_PADDING |-> 0, SMALL_PADDING |-> 3 * Px, MEDIUM_PADDING |-> 5 * Px,
   MEDIUM_LARGE_PADDING |-> 8 * Px, LARGE_PADDING |-> 10 * Px,
   TAB_WIDTH |-> 8 * Px, CORNER_RADIUS |-> 8 * Px, MIN_BLOCK_WIDTH |-> 12 * Px,
   STATEMENT_INPUT_PADDING_LEFT |-> 20 * Px, NOTCH_WIDTH |-> 30 * Px,
   NOTCH_OFFSET_LEFT |-> 15 * Px, MIN_BLOCK_HEIGHT |-> 24 * Px,
   NOTCH_HEIGHT |-> 4 * Px, TAB_HEIGHT |-> 15 * Px, TAB_OFFSET_FROM_TOP |-> 5 * Px,
   EMPTY_INLINE_INPUT_PADDING |-> 29, EMPTY_INLINE_INPUT_HEIGHT |-> 26 * Px,
   EXTERNAL_VALUE_INPUT_PADDING |-> 2 * Px,
   EMPTY_STATEMENT_INPUT_HEIGHT |-> 24 * Px, STATEMENT_BOTTOM_SPACER |-> 5 * Px]

\* Blockly.ALIGN_LEFT, ALIGN_CENTRE, ALIGN_RIGHT
ALIGN_LEFT == -1
ALIGN_CENTRE == 0
ALIGN_RIGHT == 1

\* the result of arithmetic on undefined
NaN == -2

\* undefined where a number is expected: a value apart from every number
\* the renderer computes with
Undefined == -1

\* a measurable: its type, width, and the properties only some types have
Measurable(kind, width, isEditable, notchOffset) ==
  [kind |-> kind, width |-> width, height |-> 0, isEditable |-> isEditable,
   notchOffset |-> notchOffset]

\* no element (null)
NoElem == Measurable("null", 0, "undefined", Undefined)

\* a field: isEditable is that of the field
Field(width, isEditable) ==
  Measurable("FIELD", width, IF isEditable THEN "true" ELSE "false", Undefined)

\* an icon, a hat, a jagged edge, a corner or an input of the given width
Elem(kind, width) == Measurable(kind, width, "undefined", Undefined)

\* a previous or next connection: a notch at NOTCH_OFFSET_LEFT
ConnectionElem(kind) ==
  Measurable(kind, constants_.NOTCH_WIDTH, "undefined", constants_.NOTCH_OFFSET_LEFT)

\* new Blockly.blockRendering.InRowSpacer(constants, width)
InRowSpacer(width) == Elem("IN_ROW_SPACER", width)

\* Blockly.blockRendering.Types: the tests for one type (is a field, is an
\* icon, ...)
isA(e, kind) == e.kind = kind

\* Blockly.blockRendering.Types.isInput
isInput(e) ==
  isA(e, "INLINE_INPUT") \/ isA(e, "EXTERNAL_VALUE_INPUT") \/ isA(e, "STATEMENT_INPUT")

\* Blockly.blockRendering.Types.isPreviousOrNextConnection
isPreviousOrNextConnection(e) ==
  isA(e, "PREVIOUS_CONNECTION") \/ isA(e, "NEXT_CONNECTION")

\* Blockly.blockRendering.Types.isSpacer
isSpacer(e) == isA(e, "IN_ROW_SPACER")

\* an element is given (not null)
Given(e) == e.kind # "null"

\* the truth of e.isEditable in a condition
Editable(e) == e.isEditable = "true"

\* a number minus a number, NaN when one of them is undefined
Minus(a, b) == IF a = Undefined \/ b = Undefined THEN NaN ELSE a - b

spacingAtStartAnyField(next) ==
  IF Given(next) /\ isA(next, "FIELD") THEN constants_.MEDIUM_PADDING
  ELSE IF Given(next) /\ isA(next, "INLINE_INPUT") THEN constants_.MEDIUM_LARGE_PADDING
  ELSE IF Given(next) /\ isA(next, "STATEMENT_INPUT") THEN constants_.STATEMENT_INPUT_PADDING_LEFT
  ELSE constants_.LARGE_PADDING

\* getInRowSpacing_ with a null prev
spacingAtStart(next) ==
  IF Given(next) /\ isA(next, "FIELD") /\ Editable(next) THEN constants_.MEDIUM_PADDING
  ELSE IF Given(next) /\ isA(next, "INLINE_INPUT") THEN constants_.MEDIUM_LARGE_PADDING
  ELSE IF Given(next) /\ isA(next, "STATEMENT_INPUT") THEN constants_.STATEMENT_INPUT_PADDING_LEFT
  ELSE constants_.LARGE_PADDING

\* getInRowSpacing_: a non-input before the end of the row
spacingNonInputAtEnd(prev) ==
  IF isA(prev, "FIELD") /\ Editable(prev) THEN constants_.MEDIUM_PADDING
  ELSE IF isA(prev, "ICON") THEN (constants_.LARGE_PADDING * 2) + 1 * Px
  ELSE IF isA(prev, "HAT") THEN constants_.NO_PADDING
  ELSE IF isPreviousOrNextConnection(prev) THEN constants_.LARGE_PADDING
  ELSE IF isA(prev, "LEFT_ROUND_CORNER") THEN constants_.MIN_BLOCK_WIDTH
  ELSE IF isA(prev, "JAGGED_EDGE") THEN constants_.NO_PADDING
  ELSE constants_.LARGE_PADDING

\* getInRowSpacing_: a non-input before an input
spacingBeforeInput(prev, next) ==
  IF Editable(prev)
  THEN IF isA(next, "INLINE_INPUT") THEN constants_.SMALL_PADDING
       ELSE IF isA(next, "EXTERNAL_VALUE_INPUT") THEN constants_.SMALL_PADDING
       ELSE constants_.LARGE_PADDING - 1 * Px
  ELSE IF isA(next, "INLINE_INPUT") THEN constants_.MEDIUM_LARGE_PADDING
       ELSE IF isA(next, "EXTERNAL_VALUE_INPUT") THEN constants_.MEDIUM_LARGE_PADDING
       ELSE IF isA(next, "STATEMENT_INPUT") THEN constants_.LARGE_PADDING
       ELSE constants_.LARGE_PADDING - 1 * Px

\* getInRowSpacing_ from the rule for icons on
spacingRest(prev, next) ==
  IF isA(prev, "ICON") /\ Given(next) /\ ~isInput(next) THEN constants_.LARGE_PADDING
  ELSE IF isA(prev, "INLINE_INPUT") /\ Given(next) /\ ~isInput(next)
  THEN IF Editable(next) THEN constants_.MEDIUM_PADDING ELSE constants_.LARGE_PADDING
  ELSE IF isA(prev, "LEFT_SQUARE_CORNER") /\ Given(next) /\ isA(next, "HAT")
  THEN constants_.NO_PADDING
  ELSE IF isA(prev, "LEFT_SQUARE_CORNER") /\ Given(next)
          /\ (isA(next, "PREVIOUS_CONNECTION") \/ isA(next, "NEXT_CONNECTION"))
  THEN next.notchOffset
  ELSE IF isA(prev, "LEFT_ROUND_CORNER") /\ Given(next)
  THEN Minus(next.notchOffset, constants_.CORNER_RADIUS)
  ELSE IF ~isInput(prev) /\ Given(next) /\ ~isInput(next)
          /\ prev.isEditable = next.isEditable
  THEN constants_.LARGE_PADDING
  ELSE IF Given(next) /\ isA(next, "JAGGED_EDGE") THEN constants_.LARGE_PADDING
  ELSE constants_.MEDIUM_PADDING

\* Blockly.thrasos.RenderInfo.prototype.getInRowSpacing_
getInRowSpacing_(prev, next) ==
  IF ~Given(prev) THEN spacingAtStart(next)
  ELSE IF ~isInput(prev) /\ ~Given(next) THEN spacingNonInputAtEnd(prev)
  ELSE IF isInput(prev) /\ ~Given(next) /\ isA(prev, "EXTERNAL_VALUE_INPUT")
  THEN constants_.NO_PADDING
  ELSE IF isInput(prev) /\ ~Given(next) /\ isA(prev, "INLINE_INPUT") THEN constants_.LARGE_PADDING
  ELSE IF isInput(prev) /\ ~Given(next) /\ isA(prev, "STATEMENT_INPUT") THEN constants_.NO_PADDING
  ELSE IF ~isInput(prev) /\ Given(next) /\ isInput(next)
  THEN spacingBeforeInput(prev, next)
  ELSE spacingRest(prev, next)

\* a row: Blockly.blockRendering.Row (TopRow, BottomRow, InputRow) with its
\* elements; startsWithElemSpacer and endsWithElemSpacer are what the row's
\* methods of these names return
Row(kind, elements, align) ==
  [kind |-> kind, elements |-> elements, align |-> align,
   hasExternalInput |-> \E i \in 1..Len(elements) : isA(elements[i], "EXTERNAL_VALUE_INPUT"),
   hasStatement |-> \E i \in 1..Len(elements) : isA(elements[i], "STATEMENT_INPUT"),
   hasDummyInput |-> kind = "input" /\ \A i \in 1..Len(elements) : ~isInput(elements[i]),
   startsWithElemSpacer |-> kind = "input",
   endsWithElemSpacer |-> TRUE,
   width |-> 0, widthWithConnectedBlocks |-> 0, error |-> "none",
   height |-> 0, yPos |-> 0, xPos |-> 0, ascenderHeight |-> 0, capline |-> 0,
   descenderHeight |-> 0, baseline |-> 0]

RECURSIVE spaceBetween(_)
\* the inner loop of addElemSpacing_ and the push of the last element
spaceBetween(oldElems) ==
  IF oldElems = <<>> THEN <<NoElem>>
  ELSE IF Len(oldElems) = 1 THEN oldElems
  ELSE <<oldElems[1], InRowSpacer(getInRowSpacing_(oldElems[1], oldElems[2]))>>
       \o spaceBetween(Tail(oldElems))

\* oldElems[i], undefined (no element) beyond the ends
ElemAt(oldElems, i) == IF i \in 1..Len(oldElems) THEN oldElems[i] ELSE NoElem

\* the body of the second loop of addElemSpacing_, for one row
spaceRow(row, hasExternalInputs) ==
  LET oldElems == row.elements
      lead == IF row.startsWithElemSpacer
              THEN <<InRowSpacer(getInRowSpacing_(NoElem, ElemAt(oldElems, 1)))>>
              ELSE <<>>
      spacing == getInRowSpacing_(ElemAt(oldElems, Len(oldElems)), NoElem)
      trail == IF row.endsWithElemSpacer
               THEN <<InRowSpacer(IF hasExternalInputs /\ row.hasDummyInput
                                  THEN spacing + constants_.TAB_WIDTH ELSE spacing)>>
               ELSE <<>>
  IN [row EXCEPT !.elements = lead \o spaceBetween(oldElems) \o trail]

\* Blockly.thrasos.RenderInfo.prototype.addElemSpacing_
addElemSpacing_(rs) ==
  LET hasExternalInputs == \E i \in 1..Len(rs) : rs[i].hasExternalInput
  IN [i \in 1..Len(rs) |-> spaceRow(rs[i], hasExternalInputs)]

RECURSIVE SumWidths(_)
\* the sum of the widths of a list of elements
SumWidths(elems) ==
  IF elems = <<>> THEN 0 ELSE Head(elems).width + SumWidths(Tail(elems))

\* Row.prototype.measure: the width of a row is the sum of the widths of its
\* elements
measure(row) ==
  [row EXCEPT !.width = SumWidths(row.elements),
              !.widthWithConnectedBlocks = SumWidths(row.elements)]

\* the places of the spacers of a row
Spacers(row) == {i \in 1..Len(row.elements) : isSpacer(row.elements[i])}

\* Row.prototype.getFirstSpacer, getLastSpacer: the place of the spacer, 0
\* for null
getFirstSpacer(row) ==
  IF Spacers(row) = {} THEN 0
  ELSE CHOOSE i \in Spacers(row) : \A j \in Spacers(row) : i <= j
getLastSpacer(row) ==
  IF Spacers(row) = {} THEN 0
  ELSE CHOOSE i \in Spacers(row) : \A j \in Spacers(row) : i >= j

\* spacer.width += amount; a TypeError when the spacer is null
widen(row, spacer, amount) ==
  IF row.error # "none" THEN row
  ELSE IF spacer = 0 THEN [row EXCEPT !.error = "TypeError"]
  ELSE [row EXCEPT !.elements[spacer].width = @ + amount]

\* row.width += missingSpace, unless an error was raised before
addWidth(row, missingSpace) ==
  IF row.error # "none" THEN row ELSE [row EXCEPT !.width = @ + missingSpace]

\* missingSpace / 2
Half(missingSpace) == missingSpace \div 2

addAlignmentPadding_CentreLeading(row, missingSpace) ==
  LET firstSpacer == getFirstSpacer(row)
      lastSpacer == getLastSpacer(row)
      r1 == IF row.hasExternalInput \/ row.hasStatement
            THEN [row EXCEPT !.widthWithConnectedBlocks = @ + missingSpace]
            ELSE row
      r2 == IF row.align = ALIGN_LEFT THEN widen(r1, lastSpacer, missingSpace)
            ELSE IF row.align = ALIGN_CENTRE
            THEN widen(r1, firstSpacer, Half(missingSpace))
            ELSE IF row.align = ALIGN_RIGHT
            THEN widen(r1, firstSpacer, missingSpace)
            ELSE widen(r1, lastSpacer, missingSpace)
  IN addWidth(r2, missingSpace)

addAlignmentPadding_Swapped(row, missingSpace) ==
  LET firstSpacer == getFirstSpacer(row)
      lastSpacer == getLastSpacer(row)
      r1 == IF row.hasExternalInput \/ row.hasStatement
            THEN [row EXCEPT !.widthWithConnectedBlocks = @ + missingSpace]
            ELSE row
      r2 == IF row.align = ALIGN_LEFT THEN widen(r1, firstSpacer, missingSpace)
            ELSE IF row.align = ALIGN_CENTRE
            THEN widen(widen(r1, firstSpacer, Half(missingSpace)),
                       lastSpacer, Half(missingSpace))
            ELSE IF row.align = ALIGN_RIGHT
            THEN widen(r1, lastSpacer, missingSpace)
            ELSE widen(r1, lastSpacer, missingSpace)
  IN addWidth(r2, missingSpace)

\* Blockly.thrasos.RenderInfo.prototype.addAlignmentPadding_
addAlignmentPadding_(row, missingSpace) ==
  LET firstSpacer == getFirstSpacer(row)
      lastSpacer == getLastSpacer(row)
      r1 == IF row.hasExternalInput \/ row.hasStatement
            THEN [row EXCEPT !.widthWithConnectedBlocks = @ + missingSpace]
            ELSE row
      r2 == IF row.align = ALIGN_LEFT THEN widen(r1, lastSpacer, missingSpace)
            ELSE IF row.align = ALIGN_CENTRE
            THEN widen(widen(r1, firstSpacer, Half(missingSpace)),
                       lastSpacer, Half(missingSpace))
            ELSE IF row.align = ALIGN_RIGHT
            THEN widen(r1, firstSpacer, missingSpace)
            ELSE widen(r1, lastSpacer, missingSpace)
  IN addWidth(r2, missingSpace)

\* the align of a row that has none of the three values (null on a top or
\* bottom row)
NoAlign == 2

\* the width of a field and of an input in the rows followed
FieldWidth == 20 * Px
InputWidth == 15 * Px

\* the rows of a block before spacing: top row, one input row, bottom row
BlockRows(top, middle, align, bottom) ==
  <<Row("top", top, NoAlign), Row("input", middle, align),
    Row("bottom", bottom, NoAlign)>>

\* no call made on the rows yet
NoRowLog == [op |-> "none", row |-> 0, missingSpace |-> 0, padded |-> {},
             prev |-> NoElem, next |-> NoElem, spacing |-> 0]

\* a block with one dummy input holding one non-editable field, as created
InitRows ==
  /\ rows = BlockRows(<<Elem("LEFT_ROUND_CORNER", constants_.CORNER_RADIUS)>>,
                      <<Field(FieldWidth, FALSE)>>, ALIGN_LEFT,
                      <<Elem("LEFT_SQUARE_CORNER", constants_.NO_PADDING)>>)
  /\ oldRows = rows
  /\ rowPhase = "created"
  /\ rowLog = NoRowLog

\* the render info before the finalize pass
NoInfo == [height |-> 0, widthWithChildren |-> 0, startX |-> 0, startY |-> 0]

\* the themes and the workspaces of the page, the component names of a theme,
\* the elements subscribed as components and their style properties
Themes == {"classic", "dark"}
Workspaces == {"main", "flyout"}
ComponentNames == {"toolbox", "flyoutBackground"}
Elements == {"div", "svg"}
PropertyNames == {"backgroundColor", "fill"}

\* no call made on the theme manager yet
NoThemeLog == [op |-> "none", theme |-> "null", workspace |-> "null",
               element |-> "null", events |-> <<>>, error |-> "none"]

\* new Blockly.ThemeManager(theme): nothing subscribed; componentDB_ lists its
\* component names in the order they were added, each with its components
InitTheme ==
  /\ theme_ = "classic"
  /\ subscribedWorkspaces_ = <<>>
  /\ componentDB_ = <<>>
  /\ style = [e \in Elements \X PropertyNames |-> "unset"]
  /\ themeLog = NoThemeLog

\* no call of tighten_ made yet
NoTightLog == [op |-> "none", conn |-> "null", error |-> "none"]

\* the blocks' SVG roots: none created yet, every block at the origin
InitTight ==
  /\ blockXY = [b \in Blocks |-> <<0, 0>>]
  /\ svgGroup_ = [b \in Blocks |-> FALSE]
  /\ tightLog = NoTightLog

\* no call made yet, nothing asked of an index
InitIndex == asked = <<>>

\* no call of setCheck made yet
NoCheckLog == [op |-> "none", conn |-> "null", before |-> <<>>,
              events |-> <<>>]

\* the type checks of the connections (Connection.check_; "null" is any)
check_(c) ==
  CASE c = "n2" -> {"A"}
    [] c = "n1" -> {"A", "B"}
    [] c = "p4" -> {"B"}
    [] OTHER -> {"null"}

\* the connections as constructed: the type checks they are given
InitCheck ==
  /\ check = [c \in Conns |-> check_(c)]
  /\ checkLog = NoCheckLog

\* the nodes of the tree widget; t is the node that can be the tree control
Nodes == {"t", "a", "b", "c"}

\* no call made on a node yet
NoTreeLog == [op |-> "none", node |-> "null", child |-> "null",
              error |-> "none"]

\* new Blockly.tree.BaseNode(content, config) for every node: no parent, no
\* children, no siblings, depth not cached, not expanded
InitNodes ==
  /\ parent_ = [n \in Nodes |-> "null"]
  /\ children_ = [n \in Nodes |-> <<>>]
  /\ previousSibling_ = [n \in Nodes |-> "null"]
  /\ nextSibling_ = [n \in Nodes |-> "null"]
  /\ depth_ = [n \in Nodes |-> -1]
  /\ expanded_ = [n \in Nodes |-> FALSE]
  /\ treeLog = NoTreeLog

\* no call made on the checkbox field yet
NoBoxLog == [op |-> "none", newValue |-> "undefined", before |-> "undefined"]

\* Blockly.Field before its constructor has set a value: no value, no
\* validator
InitField ==
  /\ value_ = "null"
  /\ validator_ = "null"
  /\ boxLog = NoBoxLog

\* no node is a tree control
InitMore == InitIndex /\ InitCheck /\ InitNodes /\ tree = "null" /\ InitField

InitLate == info = NoInfo /\ InitTheme /\ InitTight /\ InitMore

\* the objects other than connections and blocks, as constructed
InitFar == InitPath /\ InitRows /\ InitLate

----------------------------------------------------------------------------
(* Construction: Blockly.Connection sets x_ = y_ = 0; RenderedConnection   *)
(* sets offsetInBlock_ = (0, 0), inDB_ = false, hidden_ = !this.db_.       *)

\* blocks as created: nothing connected, nothing rendered, collapsed or open
\* no drag, nothing selected, every block movable and on the main workspace
InitBump ==
  /\ dragging = FALSE
  /\ selected = "null"
  /\ isInFlyout = [b \in Blocks |-> FALSE]
  /\ movable = [b \in Blocks |-> TRUE]
  /\ RTL = FALSE

InitBlocks ==
  /\ targetConnection = [c \in Conns |-> "null"]
  /\ rendered = [b \in Blocks |-> FALSE]
  /\ collapsed_ = [b \in Blocks |-> FALSE]
  /\ bubbleVisible = [b \in Blocks |-> FALSE]
  /\ log = NoLog

\* the connections and blocks as constructed
InitConn ==
  /\ InitBlocks
  /\ InitBump
  /\ x_ = [c \in Conns |-> 0]
  /\ y_ = [c \in Conns |-> 0]
  /\ offsetInBlock_ = [c \in Conns |-> <<0, 0>>]
  /\ inDB_ = [c \in Conns |-> FALSE]
  /\ hidden_ = [c \in Conns |-> ~(db_(c) \in connectionDBList)]
  /\ connections_ = [t \in Types |-> <<>>]
  /\ called = {}
  /\ ret = NoRet
  /\ disposed = {}
  /\ placed = {}

Init == InitConn /\ InitFar

Apply(s) ==
  /\ x_' = s.x_
  /\ y_' = s.y_
  /\ hidden_' = s.hidden_
  /\ inDB_' = s.inDB_
  /\ connections_' = s.connections_

\* the coordinates the model follows (a cap on the unbounded plane)
InRange(x, y) == x \in Xs /\ y \in Ys

MoveTo ==
  \E c \in Active, x \in Xs, y \in Ys :
    /\ ret.op = "none"
    /\ Apply(moveTo(State, c, x, y))
    /\ called' = called \cup {c}
    /\ placed' = placed \cup {c}
    /\ ret' = NoRet
    /\ UNCHANGED <<disposed, farVars, offsetInBlock_, blockVars, bumpVars>>

MoveBy ==
  \E c \in Active, dx \in {-StepX, 0, StepX}, dy \in {-StepY, 0, StepY} :
    /\ InRange(x_[c] + dx, y_[c] + dy)
    /\ Apply(moveBy(State, c, dx, dy))
    /\ called' = called \cup {c}
    /\ placed' = placed \cup {c}
    /\ ret' = NoRet
    /\ UNCHANGED <<disposed, farVars, offsetInBlock_, blockVars, bumpVars>>

MoveToOffset ==
  \E c \in Active, tlx \in {0, -StepX} \cup Xs, tly \in {0, -StepY} \cup Ys :
    /\ InRange(tlx + offsetInBlock_[c][1], tly + offsetInBlock_[c][2])
    /\ Apply(moveToOffset(State, offsetInBlock_, c, <<tlx, tly>>))
    /\ called' = called \cup {c}
    /\ placed' = placed \cup {c}
    /\ ret' = NoRet
    /\ UNCHANGED <<disposed, farVars, offsetInBlock_, blockVars, bumpVars>>

\* RenderedConnection.prototype.setOffsetInBlock
SetOffsetInBlock ==
  \E c \in Active, o \in Offsets :
    /\ offsetInBlock_' = [offsetInBlock_ EXCEPT ![c] = o]
    /\ ret' = NoRet
    /\ UNCHANGED <<disposed, placed, farVars, x_, y_, hidden_, inDB_,
                   connections_, called, blockVars, bumpVars>>

SetHidden ==
  \E c \in Active, h \in BOOLEAN :
    /\ ret.op = "none"
    /\ Apply(setHidden(State, c, h))
    /\ called' = called \cup {c}
    /\ ret' = NoRet
    /\ UNCHANGED <<disposed, placed, farVars, offsetInBlock_, blockVars, bumpVars>>

Next == MoveTo \/ MoveBy \/ MoveToOffset \/ SetOffsetInBlock \/ SetHidden

Spec == Init /\ [][Next]_vars

----------------------------------------------------------------------------
(* Index membership.                                                       *)

\* the places of connection c in the index of type t
Places(t, c) == {i \in 1..Len(connections_[t]) : connections_[t][i].c = c}

\* c is present in the index of its own type
InIndex(c) == Places(db_(c), c) # {}

\* the index of type t is sorted by the stored y
SortedByY(t) ==
  \A i, j \in 1..Len(connections_[t]) :
    i < j => connections_[t][i].y <= connections_[t][j].y

\* C1: once moveTo, moveBy, moveToOffset or setHidden has been called on a
\* connection, it is present in its spatial index, and inDB_ is true, if and
\* only if it is not hidden.
C1_InIndexIffNotHidden ==
  \A c \in called : /\ inDB_[c] <=> ~hidden_[c]
                    /\ InIndex(c) <=> ~hidden_[c]

\* a connection was hidden after it had been moved into the index, while
\* another one is visible and indexed
C1_Witness ==
  \E c, d \in called : /\ hidden_[c] /\ ~inDB_[c] /\ x_[c] # 0
                       /\ ~hidden_[d] /\ inDB_[d] /\ InIndex(d)

\* C2 as stated: in every state from construction onwards a non-hidden
\* connection is present in exactly one index, that of its type, and a
\* hidden connection in none.
C2_FromConstruction ==
  \A c \in Conns :
    /\ ~hidden_[c] => /\ Cardinality(Places(db_(c), c)) = 1
                      /\ \A t \in Types \ {db_(c)} : Places(t, c) = {}
    /\ hidden_[c] => \A t \in Types : Places(t, c) = {}

\* C2, amended: a connection on which moveTo, moveBy, moveToOffset or
\* setHidden has been called is present exactly once in the index of its own
\* type and in no other index when it is not hidden, and in no index when it
\* is hidden; a connection that was only constructed is not hidden and is in
\* no index.
C2_OnceCalled ==
  \A c \in Conns :
    /\ (c \in called /\ ~hidden_[c]) =>
          /\ Cardinality(Places(db_(c), c)) = 1
          /\ \A t \in Types \ {db_(c)} : Places(t, c) = {}
    /\ (c \in called /\ hidden_[c]) => \A t \in Types : Places(t, c) = {}
    /\ c \notin called => /\ ~hidden_[c]
                          /\ \A t \in Types : Places(t, c) = {}

\* two visible connections share an index, a third one is hidden, and a
\* fourth was never touched
C2_Witness ==
  /\ \E c, d \in called : c # d /\ db_(c) = db_(d) /\ InIndex(c) /\ InIndex(d)
  /\ \E c \in called : hidden_[c] /\ ~InIndex(c)
  /\ \E c \in Conns \ called : ~hidden_[c] /\ ~InIndex(c)

\* C3: the index never holds stale coordinates: every entry is stored under
\* the current (x_, y_) of its connection, and each index is sorted by y.
C3_NoStaleCoordinates ==
  \A t \in Types :
    /\ \A i \in 1..Len(connections_[t]) :
         LET e == connections_[t][i]
         IN e.x = x_[e.c] /\ e.y = y_[e.c]
    /\ SortedByY(t)

\* two indexed connections of one type lie at different y, away from where
\* they were constructed
C3_Witness ==
  \E c, d \in called :
    /\ c # d /\ db_(c) = db_(d) /\ InIndex(c) /\ InIndex(d)
    /\ y_[c] < y_[d] /\ x_[c] # 0

----------------------------------------------------------------------------
(* Distance and snapping.  distanceFrom is Math.sqrt of a sum of squares   *)
(* of integers; the model keeps the sum of squares, and compares a         *)
(* distance with a radius r by comparing the squares (r < 0 is below every *)
(* distance).                                                              *)

\* RenderedConnection.prototype.distanceFrom, squared
distanceFromSq(s, c, otherConnection) ==
  LET xDiff == s.x_[c] - s.x_[otherConnection]
      yDiff == s.y_[c] - s.y_[otherConnection]
  IN xDiff * xDiff + yDiff * yDiff

\* the integer d with d * d = n, when there is one (Math.sqrt is exact then)
ExactSqrt(n) == IF \E d \in 0..n : d * d = n
                THEN CHOOSE d \in 0..n : d * d = n
                ELSE -1

\* Math.sqrt(distSq) > radius
SqrtGreater(distSq, radius) == radius < 0 \/ distSq > radius * radius

\* Connection.prototype.checkType_ for type checks that change: chk[c] is
\* the check_ of connection c
checkTypeWith(chk, c, otherConnection) ==
  \/ chk[c] = {"null"}
  \/ chk[otherConnection] = {"null"}
  \/ chk[c] \cap chk[otherConnection] # {}

\* Connection.prototype.checkType_
checkType_(c, otherConnection) ==
  \/ check_(c) = {"null"}
  \/ check_(otherConnection) = {"null"}
  \/ check_(c) \cap check_(otherConnection) # {}

\* Connection.prototype.isConnectionAllowed: the type and shape rules
superIsConnectionAllowed(c, candidate) ==
  /\ type(candidate) = OPPOSITE_TYPE(type(c))
  /\ sourceBlock_(candidate) # sourceBlock_(c)
  /\ checkType_(c, candidate)

isConnectionAllowedNoDistance(s, c, candidate, maxRadius) ==
  superIsConnectionAllowed(c, candidate)

isConnectionAllowedGe(s, c, candidate, maxRadius) ==
  IF maxRadius < 0 \/ distanceFromSq(s, c, candidate) >= maxRadius * maxRadius
  THEN FALSE
  ELSE superIsConnectionAllowed(c, candidate)

\* RenderedConnection.prototype.isConnectionAllowed
isConnectionAllowed(s, c, candidate, maxRadius) ==
  IF SqrtGreater(distanceFromSq(s, c, candidate), maxRadius)
  THEN FALSE
  ELSE superIsConnectionAllowed(c, candidate)

\* the order in which a search walks the index: back from the insertion
\* point of the searching connection, then forward from it
ScanOrder(entries, y) ==
  LET pos == findPositionForConnection_(entries, y)
  IN [i \in 1..Len(entries) |->
        IF i <= pos - 1 THEN pos - i ELSE i]

\* ConnectionDB.prototype.searchForClosest: the connection is taken to be at
\* its position plus dxy while the index is walked; the first allowed
\* candidate in scan order is returned with its distance
searchForClosest(s, db, c, maxRadius, dxy) ==
  LET entries == s.connections_[db]
      moved == [s EXCEPT !.x_[c] = s.x_[c] + dxy[1], !.y_[c] = s.y_[c] + dxy[2]]
      order == ScanOrder(entries, moved.y_[c])
      hits == {k \in 1..Len(entries) :
                 isConnectionAllowed(moved, c, entries[order[k]].c, maxRadius)}
  IN IF hits = {}
     THEN [connection |-> "null", radiusSq |-> maxRadius * maxRadius]
     ELSE LET k1 == CHOOSE k \in hits : \A j \in hits : k <= j
              found == entries[order[k1]].c
          IN [connection |-> found, radiusSq |-> distanceFromSq(moved, c, found)]

\* RenderedConnection.prototype.closest
closest(s, c, maxLimit, dxy) ==
  searchForClosest(s, dbOpposite_(c), c, maxLimit, dxy)

\* drag displacements a search is made with
Dxys == {<<0, 0>>, <<StepX, 0>>, <<0, StepY>>, <<-StepX, -StepY>>}

Closest ==
  \E c \in Active, maxLimit \in Radii, dxy \in Dxys :
    LET found == closest(State, c, maxLimit, dxy)
    IN /\ ret.op = "none"
       /\ ret' = [NoRet EXCEPT !.op = "closest", !.conn = c,
                               !.maxRadius = maxLimit, !.dxy = dxy,
                               !.db = dbOpposite_(c),
                               !.connection = found.connection,
                               !.radiusSq = found.radiusSq]
       /\ UNCHANGED <<disposed, placed, farVars, x_, y_, offsetInBlock_, hidden_,
                    inDB_, connections_, called, blockVars, bumpVars>>

IsConnectionAllowed ==
  \E c \in Active, candidate \in Active, maxRadius \in Radii :
    /\ candidate # c
    /\ ret.op = "none"
    /\ ret' = [NoRet EXCEPT !.op = "isConnectionAllowed", !.conn = c,
                            !.cand = candidate, !.maxRadius = maxRadius,
                            !.allowed = isConnectionAllowed(State, c, candidate,
                                                            maxRadius)]
    /\ UNCHANGED <<disposed, placed, farVars, x_, y_, offsetInBlock_, hidden_,
                    inDB_, connections_, called, blockVars, bumpVars>>

\* the caller takes the returned value; the calls are synchronous, so nothing
\* else runs between a call and its return
Return ==
  /\ ret.op # "none"
  /\ ret' = NoRet
  /\ UNCHANGED <<disposed, placed, farVars, x_, y_, offsetInBlock_, hidden_,
                    inDB_, connections_, called, blockVars, bumpVars>>

NextSnap == MoveTo \/ SetHidden \/ Closest \/ IsConnectionAllowed \/ Return

SpecSnap == Init /\ [][NextSnap]_vars

----------------------------------------------------------------------------
(* Snap search.                                                            *)

\* the squared distance of candidate d from connection c displaced by dxy
AdjustedDistSq(c, dxy, d) ==
  (x_[c] + dxy[1] - x_[d]) * (x_[c] + dxy[1] - x_[d])
  + (y_[c] + dxy[2] - y_[d]) * (y_[c] + dxy[2] - y_[d])

\* the indexed connections the search of ret could have returned
Qualifying ==
  {d \in Conns : /\ Places(OPPOSITE_TYPE(type(ret.conn)), d) # {}
                 /\ AdjustedDistSq(ret.conn, ret.dxy, d)
                      <= ret.maxRadius * ret.maxRadius
                 /\ superIsConnectionAllowed(ret.conn, d)}

\* C4: closest searches the index of the opposite type only; a returned
\* candidate is of the opposite type and its offset-adjusted distance is at
\* most maxRadius; with no qualifying candidate the answer is "no connection".
C4_ClosestWithinRadius ==
  ret.op = "closest" =>
    /\ ret.db = OPPOSITE_TYPE(type(ret.conn))
    /\ ret.connection \in Qualifying \cup {"null"}
    /\ ret.connection # "null" =>
         /\ type(ret.connection) = OPPOSITE_TYPE(type(ret.conn))
         /\ AdjustedDistSq(ret.conn, ret.dxy, ret.connection)
              <= ret.maxRadius * ret.maxRadius
         /\ ret.radiusSq = AdjustedDistSq(ret.conn, ret.dxy, ret.connection)
    /\ Qualifying = {} <=> ret.connection = "null"

\* a search under a drag displacement returned a candidate off its own
\* position while another indexed candidate of the right type was too far
C4_Witness ==
  /\ ret.op = "closest" /\ ret.connection # "null" /\ ret.dxy # <<0, 0>>
  /\ ret.radiusSq > 0
  /\ \E d \in Conns \ {ret.connection} :
       /\ Places(ret.db, d) # {}
       /\ AdjustedDistSq(ret.conn, ret.dxy, d) > ret.maxRadius * ret.maxRadius

\* a search found nothing although the opposite index is not empty
C4_WitnessNone ==
  /\ ret.op = "closest" /\ ret.connection = "null"
  /\ connections_[ret.db] # <<>>

\* C5: isConnectionAllowed is false when the distance of the stored
\* coordinates exceeds maxRadius and is the answer of the type/shape check
\* otherwise; at (0,0) and (3,4) with maxRadius 10 the distance is 5 and a
\* type-compatible candidate is allowed.
C5_IsConnectionAllowed ==
  ret.op = "isConnectionAllowed" =>
    LET distSq == (x_[ret.conn] - x_[ret.cand]) * (x_[ret.conn] - x_[ret.cand])
                  + (y_[ret.conn] - y_[ret.cand]) * (y_[ret.conn] - y_[ret.cand])
    IN /\ distSq > ret.maxRadius * ret.maxRadius => ~ret.allowed
       /\ distSq <= ret.maxRadius * ret.maxRadius =>
            (ret.allowed <=> superIsConnectionAllowed(ret.conn, ret.cand))
       /\ ( /\ x_[ret.conn] = 0 /\ y_[ret.conn] = 0
            /\ x_[ret.cand] = 3 /\ y_[ret.cand] = 4
            /\ ret.maxRadius = 10 ) =>
            /\ ExactSqrt(distanceFromSq(State, ret.conn, ret.cand)) = 5
            /\ ret.allowed <=> superIsConnectionAllowed(ret.conn, ret.cand)

\* the scenario: (0,0) and (3,4), radius 10, a compatible candidate, allowed
C5_Witness ==
  /\ ret.op = "isConnectionAllowed" /\ ret.allowed
  /\ x_[ret.conn] = 0 /\ y_[ret.conn] = 0
  /\ x_[ret.cand] = 3 /\ y_[ret.cand] = 4
  /\ ret.maxRadius = 10

\* a compatible candidate was refused for its distance alone
C5_WitnessTooFar ==
  /\ ret.op = "isConnectionAllowed" /\ ~ret.allowed
  /\ ret.maxRadius > 0
  /\ superIsConnectionAllowed(ret.conn, ret.cand)

----------------------------------------------------------------------------
(* Blocks: their connections, parents and children.                        *)

Range(seq) == {seq[i] : i \in 1..Len(seq)}

\* Block.outputConnection, previousConnection, nextConnection, and the
\* connections of the inputs (Block.inputList)
outputConnection(b) == IF b = "b3" THEN "o3" ELSE "null"
previousConnection(b) ==
  CASE b = "b1" -> "p1" [] b = "b4" -> "p4" [] OTHER -> "null"
nextConnection(b) ==
  CASE b = "b1" -> "n1" [] b = "b2" -> "n2" [] OTHER -> "null"
inputConnections(b) == IF b = "b1" THEN <<"i1">> ELSE <<>>

\* the connections a block has among the given ones, in the given order
Present(seq) == SelectSeq(seq, LAMBDA c : c # "null")

\* BlockSvg.prototype.getConnections_(true): output, previous, next, inputs
getConnections_(b) ==
  Present(<<outputConnection(b), previousConnection(b), nextConnection(b)>>)
  \o inputConnections(b)

\* Block.prototype.getIcons: the blocks that carry an icon with a bubble
getIcons(b) == IF b \in {"b1", "b3"} THEN <<b>> ELSE <<>>

\* Connection.prototype.isSuperior
isSuperior(c) == type(c) \in {"INPUT_VALUE", "NEXT_STATEMENT"}

\* Connection.prototype.targetBlock
targetBlock(tc, c) == IF tc[c] = "null" THEN "null" ELSE sourceBlock_(tc[c])

\* Block.prototype.getChildren: the blocks on the superior connections
getChildren(tc, b) ==
  LET sup == SelectSeq(getConnections_(b),
                       LAMBDA c : isSuperior(c) /\ tc[c] # "null")
  IN [i \in 1..Len(sup) |-> targetBlock(tc, sup[i])]

RECURSIVE getDescendants(_, _)
RECURSIVE descendantsOfAll(_, _)

\* the descendants of each block of a list, concatenated
descendantsOfAll(tc, bs) ==
  IF bs = <<>> THEN <<>>
  ELSE getDescendants(tc, Head(bs)) \o descendantsOfAll(tc, Tail(bs))

\* Block.prototype.getDescendants: the block itself and all blocks below it
getDescendants(tc, b) == <<b>> \o descendantsOfAll(tc, getChildren(tc, b))

\* Block.prototype.getParent
getParent(tc, b) ==
  LET inferior == {c \in Range(getConnections_(b)) : ~isSuperior(c) /\ tc[c] # "null"}
  IN IF inferior = {} THEN "null"
     ELSE targetBlock(tc, CHOOSE c \in inferior : TRUE)

\* a is a proper ancestor of b
IsAncestor(tc, a, b) == a # b /\ b \in Range(getDescendants(tc, a))

----------------------------------------------------------------------------
(* connect_ and disconnectInternal_.  The calls they make on blocks are    *)
(* kept in the log: renders (render()) and updates (updateDisabled()).     *)

\* Connection.prototype.connect_: the two connections target each other
superConnect_(tc, parentConnection, childConnection) ==
  [tc EXCEPT ![parentConnection] = childConnection,
             ![childConnection] = parentConnection]

\* Connection.prototype.disconnectInternal_: both targets are cleared
superDisconnectInternal_(tc, c) ==
  [tc EXCEPT ![c] = "null", ![tc[c]] = "null"]

If(cond, seq) == IF cond THEN seq ELSE <<>>

connect_AlwaysParent(tc, rend, parentConnection, childConnection) ==
  LET parentBlock == sourceBlock_(parentConnection)
      childBlock == sourceBlock_(childConnection)
  IN [targetConnection |-> superConnect_(tc, parentConnection, childConnection),
      updates |-> If(rend[parentBlock], <<parentBlock>>)
                  \o If(rend[childBlock], <<childBlock>>),
      renders |-> If(rend[parentBlock] /\ rend[childBlock], <<parentBlock>>)]

\* RenderedConnection.prototype.connect_
connect_(tc, rend, parentConnection, childConnection) ==
  LET parentBlock == sourceBlock_(parentConnection)
      childBlock == sourceBlock_(childConnection)
  IN [targetConnection |-> superConnect_(tc, parentConnection, childConnection),
      updates |-> If(rend[parentBlock], <<parentBlock>>)
                  \o If(rend[childBlock], <<childBlock>>),
      renders |->
        IF rend[parentBlock] /\ rend[childBlock]
        THEN IF type(parentConnection) = "NEXT_STATEMENT"
                \/ type(parentConnection) = "PREVIOUS_STATEMENT"
             THEN <<childBlock>>
             ELSE <<parentBlock>>
        ELSE <<>>]

disconnectInternal_UpdateBoth(tc, rend, c, parentBlock, childBlock) ==
  [targetConnection |-> superDisconnectInternal_(tc, c),
   renders |-> If(rend[parentBlock], <<parentBlock>>)
               \o If(rend[childBlock], <<childBlock>>),
   updates |-> If(rend[parentBlock], <<parentBlock>>)
               \o If(rend[childBlock], <<childBlock>>)]

\* RenderedConnection.prototype.disconnectInternal_
disconnectInternal_(tc, rend, c, parentBlock, childBlock) ==
  [targetConnection |-> superDisconnectInternal_(tc, c),
   renders |-> If(rend[parentBlock], <<parentBlock>>)
               \o If(rend[childBlock], <<childBlock>>),
   updates |-> If(rend[childBlock], <<childBlock>>)]

\* Connection.prototype.connect calls connect_ on the superior connection,
\* once the two connections are known to be free and compatible
Connect ==
  \E parentConnection \in Conns, childConnection \in Conns :
    LET r == connect_(targetConnection, rendered, parentConnection, childConnection)
    IN /\ log.op = "none"
       /\ isSuperior(parentConnection)
       /\ type(childConnection) = OPPOSITE_TYPE(type(parentConnection))
       /\ targetConnection[parentConnection] = "null"
       /\ targetConnection[childConnection] = "null"
       /\ sourceBlock_(parentConnection) # sourceBlock_(childConnection)
       /\ checkType_(parentConnection, childConnection)
       /\ sourceBlock_(parentConnection) \notin
            Range(getDescendants(targetConnection, sourceBlock_(childConnection)))
       /\ targetConnection' = r.targetConnection
       /\ log' = [NoLog EXCEPT !.op = "connect_", !.conn = parentConnection,
                               !.child = childConnection,
                               !.renders = r.renders, !.updates = r.updates]
       /\ UNCHANGED <<disposed, placed, farVars, x_, y_, offsetInBlock_, hidden_, inDB_, connections_,
                      called, ret, bumpVars, rendered, collapsed_, bubbleVisible>>

\* Connection.prototype.disconnect finds the superior and the inferior block
\* and calls disconnectInternal_
Disconnect ==
  \E c \in Conns :
    /\ log.op = "none"
    /\ targetConnection[c] # "null"
    /\ LET parentConnection == IF isSuperior(c) THEN c ELSE targetConnection[c]
           parentBlock == sourceBlock_(parentConnection)
           childBlock == sourceBlock_(targetConnection[parentConnection])
           r == disconnectInternal_(targetConnection, rendered, c,
                                    parentBlock, childBlock)
       IN /\ targetConnection' = r.targetConnection
          /\ log' = [NoLog EXCEPT !.op = "disconnectInternal_",
                                  !.conn = parentConnection,
                                  !.child = targetConnection[parentConnection],
                                  !.renders = r.renders, !.updates = r.updates]
    /\ UNCHANGED <<disposed, placed, farVars, x_, y_, offsetInBlock_, hidden_, inDB_, connections_,
                   called, ret, bumpVars, rendered, collapsed_, bubbleVisible>>

\* a block is rendered (initSvg and render) or not yet
SetRendered ==
  \E b \in Blocks, v \in BOOLEAN :
    /\ log.op = "none"
    /\ rendered' = [rendered EXCEPT ![b] = v]
    /\ UNCHANGED <<disposed, placed, farVars, x_, y_, offsetInBlock_, hidden_, inDB_, connections_,
                   called, ret, bumpVars, targetConnection, collapsed_, bubbleVisible, log>>

\* the call is over
LogReturn ==
  /\ log.op # "none"
  /\ log' = NoLog
  /\ UNCHANGED <<disposed, placed, farVars, x_, y_, offsetInBlock_, hidden_, inDB_, connections_,
                 called, ret, bumpVars, targetConnection, rendered, collapsed_,
                 bubbleVisible>>

----------------------------------------------------------------------------
(* A workspace of rendered blocks laid out as a stack: every connection    *)
(* has been given its offset and moved to its place.                       *)

\* the top left corner of each block
blockTL(b) ==
  CASE b = "b2" -> <<0, 0>>
    [] b = "b1" -> <<0, StepY>>
    [] b = "b3" -> <<StepX, StepY>>
    [] OTHER -> <<0, 2 * StepY>>

\* the offset of each connection in its block
offsetOf(c) ==
  CASE type(c) = "NEXT_STATEMENT" -> <<0, StepY>>
    [] type(c) = "INPUT_VALUE" -> <<StepX, 0>>
    [] OTHER -> <<0, 0>>

Constructed ==
  [x_ |-> [c \in Conns |-> 0], y_ |-> [c \in Conns |-> 0],
   hidden_ |-> [c \in Conns |-> ~(db_(c) \in connectionDBList)],
   inDB_ |-> [c \in Conns |-> FALSE],
   connections_ |-> [t \in Types |-> <<>>], asked |-> <<>>]

ConnOrder == <<"n2", "p1", "n1", "i1", "o3", "p4">>

RECURSIVE placeAll(_, _)
\* BlockSvg.prototype.moveConnections_ after the first render
placeAll(s, cs) ==
  IF cs = <<>> THEN s
  ELSE placeAll(moveToOffset(s, [c \in Conns |-> offsetOf(c)], Head(cs),
                             blockTL(sourceBlock_(Head(cs)))),
                Tail(cs))

InitTree ==
  /\ LET s == placeAll(Constructed, ConnOrder)
     IN /\ x_ = s.x_ /\ y_ = s.y_ /\ hidden_ = s.hidden_ /\ inDB_ = s.inDB_
        /\ connections_ = s.connections_
  /\ offsetInBlock_ = [c \in Conns |-> offsetOf(c)]
  /\ called = Conns
  /\ disposed = {}
  /\ placed = Conns
  /\ InitFar
  /\ ret = NoRet
  /\ targetConnection = [c \in Conns |-> "null"]
  /\ rendered = [b \in Blocks |-> TRUE]
  /\ collapsed_ = [b \in Blocks |-> FALSE]
  /\ bubbleVisible = [b \in Blocks |-> FALSE]
  /\ log = NoLog
  /\ InitBump

NextLink == Connect \/ Disconnect \/ SetRendered \/ LogReturn

SpecLink == InitTree /\ [][NextLink]_vars

\* C6: on connect_, when both blocks are rendered exactly one render() is
\* called: the child's for a next/previous connection, otherwise the
\* parent's; when either block is not rendered no render() is called.
C6_ConnectRendersOne ==
  log.op = "connect_" =>
    LET parentBlock == sourceBlock_(log.conn)
        childBlock == sourceBlock_(log.child)
    IN IF rendered[parentBlock] /\ rendered[childBlock]
       THEN /\ Len(log.renders) = 1
            /\ type(log.conn) \in {"NEXT_STATEMENT", "PREVIOUS_STATEMENT"}
                 => log.renders = <<childBlock>>
            /\ type(log.conn) \notin {"NEXT_STATEMENT", "PREVIOUS_STATEMENT"}
                 => log.renders = <<parentBlock>>
       ELSE log.renders = <<>>

\* two rendered blocks were joined by a next connection: the child rendered
C6_Witness ==
  /\ log.op = "connect_" /\ type(log.conn) = "NEXT_STATEMENT"
  /\ rendered[sourceBlock_(log.conn)] /\ rendered[sourceBlock_(log.child)]
  /\ log.renders = <<sourceBlock_(log.child)>>

\* two rendered blocks were joined by a value input: the parent rendered
C6_WitnessInput ==
  /\ log.op = "connect_" /\ type(log.conn) = "INPUT_VALUE"
  /\ rendered[sourceBlock_(log.conn)] /\ rendered[sourceBlock_(log.child)]
  /\ log.renders = <<sourceBlock_(log.conn)>>

\* a rendered block was joined to one that is not rendered: no render
C6_WitnessUnrendered ==
  /\ log.op = "connect_" /\ log.renders = <<>>
  /\ rendered[sourceBlock_(log.conn)] /\ ~rendered[sourceBlock_(log.child)]

\* C7 as stated: on disconnect each rendered block of the two is rendered
\* again and updateDisabled is called on the parent and on the child (on
\* each of them that is rendered).
C7_UpdateDisabledBoth ==
  log.op = "disconnectInternal_" =>
    \A b \in {sourceBlock_(log.conn), sourceBlock_(log.child)} :
      rendered[b] => b \in Range(log.renders) /\ b \in Range(log.updates)

\* C7, amended: on disconnect each rendered block of the two is rendered
\* again, the parent first; updateDisabled is called on the child when the
\* child is rendered and is never called on the parent.
C7_UpdateDisabledChildOnly ==
  log.op = "disconnectInternal_" =>
    LET parentBlock == sourceBlock_(log.conn)
        childBlock == sourceBlock_(log.child)
    IN /\ log.renders = If(rendered[parentBlock], <<parentBlock>>)
                        \o If(rendered[childBlock], <<childBlock>>)
       /\ log.updates = If(rendered[childBlock], <<childBlock>>)
       /\ targetConnection[log.conn] = "null"
       /\ targetConnection[log.child] = "null"

\* two rendered blocks were disconnected
C7_Witness ==
  /\ log.op = "disconnectInternal_"
  /\ rendered[sourceBlock_(log.conn)] /\ rendered[sourceBlock_(log.child)]
  /\ Len(log.renders) = 2 /\ Len(log.updates) = 1

----------------------------------------------------------------------------
(* hideAll and unhideAll.  The state they work on is the connection state  *)
(* together with the visibility of the icon bubbles.                       *)

HideState == [x_ |-> x_, y_ |-> y_, hidden_ |-> hidden_, inDB_ |-> inDB_,
              connections_ |-> connections_, bubbleVisible |-> bubbleVisible,
              asked |-> <<>>]

RECURSIVE hideConnections(_, _)
\* the inner loop of hideAll: connections[j].setHidden(true)
hideConnections(s, cs) ==
  IF cs = <<>> THEN s
  ELSE hideConnections(setHidden(s, Head(cs), TRUE), Tail(cs))

RECURSIVE closeIcons(_, _)
\* the inner loop of hideAll: icons[j].setVisible(false)
closeIcons(s, icons) ==
  IF icons = <<>> THEN s
  ELSE closeIcons([s EXCEPT !.bubbleVisible[Head(icons)] = FALSE], Tail(icons))

RECURSIVE hideBlocks(_, _)
\* the outer loop of hideAll over the blocks
hideBlocks(s, blocks) ==
  IF blocks = <<>> THEN s
  ELSE hideBlocks(closeIcons(hideConnections(s, getConnections_(Head(blocks))),
                             getIcons(Head(blocks))),
                  Tail(blocks))

hideAllChildrenOnly(s, tc, c) ==
  LET s1 == setHidden(s, c, TRUE)
  IN IF tc[c] # "null"
     THEN hideBlocks(s1, <<targetBlock(tc, c)>>)
     ELSE s1

\* RenderedConnection.prototype.hideAll
hideAll(s, tc, c) ==
  LET s1 == setHidden(s, c, TRUE)
  IN IF tc[c] # "null"
     THEN hideBlocks(s1, getDescendants(tc, targetBlock(tc, c)))
     ELSE s1

leafAlways(renderList, block) == renderList \o <<block>>

\* the end of unhideAll: a block below which nothing is rendered is a leaf
leafOrList(renderList, block) ==
  IF renderList = <<>> THEN <<block>> ELSE renderList

partialConnectionsWithInputs(b) == getConnections_(b)

\* the connections unhideAll follows on a collapsed block: output, next,
\* previous
partialConnections(b) ==
  Present(<<outputConnection(b), nextConnection(b), previousConnection(b)>>)

RECURSIVE unhideAll(_, _, _, _)
RECURSIVE unhideEach(_, _, _, _)

\* the loop of unhideAll over the connections of the target block
unhideEach(s, tc, col, cs) ==
  IF cs = <<>> THEN [st |-> s, renderList |-> <<>>, unhidden |-> {}]
  ELSE LET r1 == unhideAll(s, tc, col, Head(cs))
           r2 == unhideEach(r1.st, tc, col, Tail(cs))
       IN [st |-> r2.st, renderList |-> r1.renderList \o r2.renderList,
           unhidden |-> r1.unhidden \cup r2.unhidden]

\* RenderedConnection.prototype.unhideAll; unhidden is the set of the
\* connections setHidden(false) was called on
unhideAll(s, tc, col, c) ==
  LET s1 == setHidden(s, c, FALSE)
      block == targetBlock(tc, c)
  IN IF type(c) # "INPUT_VALUE" /\ type(c) # "NEXT_STATEMENT"
     THEN [st |-> s1, renderList |-> <<>>, unhidden |-> {c}]
     ELSE IF block = "null"
     THEN [st |-> s1, renderList |-> <<>>, unhidden |-> {c}]
     ELSE LET connections == IF col[block] THEN partialConnections(block)
                             ELSE getConnections_(block)
              r == unhideEach(s1, tc, col, connections)
          IN [st |-> r.st, renderList |-> leafOrList(r.renderList, block),
              unhidden |-> {c} \cup r.unhidden]

ApplyHide(s) ==
  /\ x_' = s.x_
  /\ y_' = s.y_
  /\ hidden_' = s.hidden_
  /\ inDB_' = s.inDB_
  /\ connections_' = s.connections_
  /\ bubbleVisible' = s.bubbleVisible

HideAll ==
  \E c \in Conns :
    /\ log.op = "none"
    /\ ApplyHide(hideAll(HideState, targetConnection, c))
    /\ log' = [NoLog EXCEPT !.op = "hideAll", !.conn = c,
                            !.before = {b \in Blocks : bubbleVisible[b]},
                            !.hiddenBefore = {k \in Conns : hidden_[k]}]
    /\ UNCHANGED <<disposed, placed, farVars, offsetInBlock_, called, ret, bumpVars, targetConnection, rendered,
                   collapsed_>>

UnhideAll ==
  \E c \in Conns :
    LET r == unhideAll(HideState, targetConnection, collapsed_, c)
    IN /\ log.op = "none"
       /\ ApplyHide(r.st)
       /\ log' = [NoLog EXCEPT !.op = "unhideAll", !.conn = c,
                               !.renderList = r.renderList,
                               !.unhidden = r.unhidden,
                               !.hiddenBefore = {k \in Conns : hidden_[k]}]
       /\ UNCHANGED <<disposed, placed, farVars, offsetInBlock_, called, ret, bumpVars, targetConnection, rendered,
                      collapsed_>>

\* Block.prototype.isCollapsed: the block is collapsed or expanded
SetCollapsed ==
  \E b \in {"b1", "b3"}, v \in BOOLEAN :
    /\ log.op = "none"
    /\ collapsed_' = [collapsed_ EXCEPT ![b] = v]
    /\ UNCHANGED <<disposed, placed, farVars, x_, y_, offsetInBlock_, hidden_, inDB_, connections_,
                   called, ret, bumpVars, targetConnection, rendered, bubbleVisible, log>>

\* Icon.prototype.setVisible(true): the user opens the bubble of an icon
ShowBubble ==
  \E b \in Blocks :
    /\ log.op = "none"
    /\ getIcons(b) # <<>>
    /\ ~bubbleVisible[b]
    /\ bubbleVisible' = [bubbleVisible EXCEPT ![b] = TRUE]
    /\ UNCHANGED <<disposed, placed, farVars, x_, y_, offsetInBlock_, hidden_, inDB_, connections_,
                   called, ret, bumpVars, targetConnection, rendered, collapsed_, log>>

NextHide ==
  Connect \/ Disconnect \/ SetCollapsed \/ ShowBubble \/ HideAll \/ UnhideAll
  \/ LogReturn

SpecHide == InitTree /\ [][NextHide]_vars

\* C8: the list unhideAll returns holds the leaves of the revealed subtree:
\* no block twice, no block that is an ancestor of another block of the
\* list, and every block below the connection that had a connection
\* unhidden is in the list or an ancestor of a block of the list; the list
\* is empty for a connection that is not an input or next connection or has
\* no target block.
C8_RenderListIsLeaves ==
  log.op = "unhideAll" =>
    LET list == Range(log.renderList)
        tc == targetConnection
        below == {sourceBlock_(k) : k \in log.unhidden \ {log.conn}}
    IN /\ Cardinality(list) = Len(log.renderList)
       /\ \A a, b \in list : ~IsAncestor(tc, a, b)
       /\ \A b \in below :
            \E l \in list : l = b \/ IsAncestor(tc, b, l)
       /\ list \subseteq below
       /\ (~isSuperior(log.conn) \/ tc[log.conn] = "null")
            => log.renderList = <<>>
       /\ (isSuperior(log.conn) /\ tc[log.conn] # "null")
            => log.renderList # <<>>

\* a subtree with two leaves below an inner block was revealed
C8_Witness ==
  /\ log.op = "unhideAll" /\ Len(log.renderList) = 2
  /\ \E k \in log.unhidden \ {log.conn} :
       sourceBlock_(k) \notin Range(log.renderList)

\* a collapsed block with a block on its input was revealed as a leaf
C8_WitnessCollapsed ==
  /\ log.op = "unhideAll" /\ log.renderList = <<"b1">>
  /\ collapsed_["b1"] /\ targetConnection["i1"] # "null"

\* C9: after hideAll on a connected connection, the connection and every
\* connection of the target block and of its descendants are hidden and out
\* of the index, and every icon bubble of those blocks is not visible.
C9_HideAllHidesSubtree ==
  (log.op = "hideAll" /\ targetConnection[log.conn] # "null") =>
    /\ hidden_[log.conn] /\ ~inDB_[log.conn] /\ ~InIndex(log.conn)
    /\ \A b \in Range(getDescendants(targetConnection,
                                     targetBlock(targetConnection, log.conn))) :
         /\ \A k \in Range(getConnections_(b)) :
              hidden_[k] /\ ~inDB_[k] /\ ~InIndex(k)
         /\ \A i \in Range(getIcons(b)) : ~bubbleVisible[i]

\* hideAll on the connection above a block with two connected children and
\* an open bubble on it and on a grandchild
C9_Witness ==
  /\ log.op = "hideAll" /\ log.conn = "n2"
  /\ targetConnection["n2"] = "p1"
  /\ targetConnection["i1"] = "o3" /\ targetConnection["n1"] = "p4"
  /\ log.before = {"b1", "b3"}

----------------------------------------------------------------------------
(* Bumping a block away after a failed connection.                         *)

RECURSIVE getRootBlock(_, _)
\* Block.prototype.getRootBlock
getRootBlock(tc, b) ==
  IF getParent(tc, b) = "null" THEN b ELSE getRootBlock(tc, getParent(tc, b))

RECURSIVE moveConnections_(_, _, _, _)
\* BlockSvg.prototype.moveConnections_: moveBy on every connection
moveConnections_(s, cs, dx, dy) ==
  IF cs = <<>> THEN s
  ELSE moveConnections_(moveBy(s, Head(cs), dx, dy), Tail(cs), dx, dy)

RECURSIVE connectionsOfAll(_)
\* the connections of the blocks of a list
connectionsOfAll(bs) ==
  IF bs = <<>> THEN <<>>
  ELSE getConnections_(Head(bs)) \o connectionsOfAll(Tail(bs))

\* BlockSvg.prototype.moveBy: the block moves with all blocks below it, and
\* so do their connections
blockMoveBy(s, tc, b, dx, dy) ==
  moveConnections_(s, connectionsOfAll(getDescendants(tc, b)), dx, dy)

\* what bumping reads of the workspace and the blocks
BumpEnv == [dragging |-> dragging, selected |-> selected,
            isInFlyout |-> isInFlyout, movable |-> movable, RTL |-> RTL]

\* nothing moved, nothing selected
NoBump(s) == [st |-> s, moved |-> "null", dx |-> 0, dy |-> 0, selects |-> <<>>]

\* the move of bumpAwayFrom_ once the block to move is known; rnd holds the
\* values of Math.floor(Math.random() * BUMP_RANDOMNESS) in call order
bumpMove(s, tc, env, c, staticConnection, rootBlock, reverse, rnd) ==
  LET isSelected == env.selected = rootBlock
      dx0 == (s.x_[staticConnection] + SNAP_RADIUS + rnd[1]) - s.x_[c]
      dy0 == (s.y_[staticConnection] + SNAP_RADIUS + rnd[2]) - s.y_[c]
      dy == IF reverse THEN -dy0 ELSE dy0
      dx == IF env.RTL
            THEN (s.x_[staticConnection] - SNAP_RADIUS - rnd[3]) - s.x_[c]
            ELSE dx0
  IN [st |-> blockMoveBy(s, tc, rootBlock, dx, dy), moved |-> rootBlock,
      dx |-> dx, dy |-> dy,
      selects |-> IF isSelected THEN <<>> ELSE <<"addSelect", "removeSelect">>]

bumpNotDraggingNoSwap(s, tc, env, c, staticConnection, rnd) ==
  LET rootBlock == getRootBlock(tc, sourceBlock_(c))
  IN IF env.isInFlyout[rootBlock] THEN NoBump(s)
     ELSE bumpMove(s, tc, env, c, staticConnection, rootBlock, FALSE, rnd)

\* bumpAwayFrom_ from the flyout check on
bumpNotDragging(s, tc, env, c, staticConnection, rnd) ==
  LET rootBlock == getRootBlock(tc, sourceBlock_(c))
      otherRoot == getRootBlock(tc, sourceBlock_(staticConnection))
  IN IF env.isInFlyout[rootBlock] THEN NoBump(s)
     ELSE IF ~env.movable[rootBlock]
     THEN IF ~env.movable[otherRoot] THEN NoBump(s)
          ELSE bumpMove(s, tc, env, c, c, otherRoot, TRUE, rnd)
     ELSE bumpMove(s, tc, env, c, staticConnection, rootBlock, FALSE, rnd)

bumpAwayFrom_NoDragCheck(s, tc, env, c, staticConnection, rnd) ==
  bumpNotDragging(s, tc, env, c, staticConnection, rnd)

\* RenderedConnection.prototype.bumpAwayFrom_
bumpAwayFrom_(s, tc, env, c, staticConnection, rnd) ==
  IF env.dragging THEN NoBump(s)
  ELSE bumpNotDragging(s, tc, env, c, staticConnection, rnd)

\* RenderedConnection.prototype.onFailedConnect
onFailedConnect(s, tc, env, c, otherConnection, rnd) ==
  bumpAwayFrom_(s, tc, env, c, otherConnection, rnd)

\* the values of Math.floor(Math.random() * BUMP_RANDOMNESS)
Jitter == 0..(BUMP_RANDOMNESS - 1)

\* the connections a failed connection is tried between
BumpConns == {"n2", "n1", "p4"}

\* the coordinates the model follows
InBumpRange(s) ==
  \A c \in Conns : /\ s.x_[c] \in -MaxBumpCoord..MaxBumpCoord
                   /\ s.y_[c] \in -MaxBumpCoord..MaxBumpCoord

OnFailedConnect ==
  \E c \in BumpConns, otherConnection \in BumpConns, rnd \in Jitter \X Jitter \X Jitter :
    LET r == onFailedConnect(State, targetConnection, BumpEnv, c,
                             otherConnection, rnd)
    IN /\ log.op = "none"
       /\ type(otherConnection) = OPPOSITE_TYPE(type(c))
       /\ targetConnection[c] = "null" /\ targetConnection[otherConnection] = "null"
       /\ InBumpRange(r.st)
       /\ Apply(r.st)
       /\ log' = [NoLog EXCEPT !.op = "onFailedConnect", !.conn = c,
                               !.child = otherConnection, !.moved = r.moved,
                               !.dx = r.dx, !.dy = r.dy, !.selects = r.selects]
       /\ UNCHANGED <<disposed, placed, farVars, offsetInBlock_, called, ret, bumpVars, targetConnection,
                      rendered, collapsed_, bubbleVisible>>

\* WorkspaceSvg.prototype.isDragging: a drag starts or ends
SetDragging ==
  /\ log.op = "none"
  /\ dragging' = ~dragging
  /\ UNCHANGED <<disposed, placed, farVars, x_, y_, offsetInBlock_, hidden_, inDB_, connections_, called,
                 ret, blockVars, selected, isInFlyout, movable, RTL>>

\* Blockly.selected: the user selects a block or nothing
Select ==
  \E b \in {"null", "b2", "b4"} :
    /\ log.op = "none"
    /\ selected # b
    /\ selected' = b
    /\ UNCHANGED <<disposed, placed, farVars, x_, y_, offsetInBlock_, hidden_, inDB_, connections_, called,
                   ret, blockVars, dragging, isInFlyout, movable, RTL>>

\* the stack b2 over b1 is connected, b4 lies free; b2 and b4 may be in a
\* flyout or immovable, the workspace may be right-to-left
InitBumpTree ==
  /\ LET s == placeAll(Constructed, ConnOrder)
     IN /\ x_ = s.x_ /\ y_ = s.y_ /\ hidden_ = s.hidden_ /\ inDB_ = s.inDB_
        /\ connections_ = s.connections_
  /\ offsetInBlock_ = [c \in Conns |-> offsetOf(c)]
  /\ called = Conns
  /\ disposed = {}
  /\ placed = Conns
  /\ InitFar
  /\ ret = NoRet
  /\ targetConnection = superConnect_([c \in Conns |-> "null"], "n2", "p1")
  /\ rendered = [b \in Blocks |-> TRUE]
  /\ collapsed_ = [b \in Blocks |-> FALSE]
  /\ bubbleVisible = [b \in Blocks |-> FALSE]
  /\ log = NoLog
  /\ dragging = FALSE
  /\ selected = "null"
  /\ \E f2, f4, m2, m4 \in BOOLEAN :
       /\ isInFlyout = [b \in Blocks |-> (b = "b2" /\ f2) \/ (b = "b4" /\ f4)]
       /\ movable = [b \in Blocks |-> (b # "b2" \/ m2) /\ (b # "b4" \/ m4)]
  /\ RTL \in BOOLEAN

NextBump == OnFailedConnect \/ SetDragging \/ Select \/ LogReturn

SpecBump == InitBumpTree /\ [][NextBump]_vars

\* C10: while a drag is in progress onFailedConnect is a no-op: no block and
\* no connection is moved, and no block is selected or deselected.
C10_NoBumpWhileDragging ==
  [][(dragging /\ log'.op = "onFailedConnect") =>
       /\ x_' = x_ /\ y_' = y_ /\ connections_' = connections_
       /\ selected' = selected
       /\ log'.moved = "null" /\ log'.selects = <<>>]_vars

\* onFailedConnect during a drag, between blocks that would be bumped
\* otherwise (movable, not in a flyout)
C10_Witness ==
  /\ log.op = "onFailedConnect" /\ dragging /\ log.moved = "null"
  /\ ~isInFlyout[getRootBlock(targetConnection, sourceBlock_(log.conn))]
  /\ movable[getRootBlock(targetConnection, sourceBlock_(log.conn))]

\* without a drag the same call moves the root block
C10_WitnessMoved ==
  /\ log.op = "onFailedConnect" /\ ~dragging /\ log.moved = "b2"
  /\ log.selects # <<>>

\* how far the connections of the blocks below b moved in the last step
MovedBy(b, dx, dy) ==
  \A c \in Range(connectionsOfAll(getDescendants(targetConnection, b))) :
    x_'[c] = x_[c] + dx /\ y_'[c] = y_[c] + dy

\* the root block of the connection onFailedConnect was last called on
thisRoot == getRootBlock(targetConnection, sourceBlock_(log.conn))

\* the root block of the connection it was called with
otherRoot == getRootBlock(targetConnection, sourceBlock_(log.child))

\* C11: onFailedConnect never moves a root block that is inside a flyout:
\* whatever the two root blocks are (movable or not, in a flyout or not), the
\* block moveBy is applied to, if any, is not in a flyout.
C11_NeverMovesFlyoutBlock ==
  (log.op = "onFailedConnect" /\ log.moved # "null") => ~isInFlyout[log.moved]

\* onFailedConnect on a connection whose root block is in a flyout: nothing
\* is moved
C11_WitnessThisInFlyout ==
  /\ log.op = "onFailedConnect" /\ ~dragging
  /\ isInFlyout[thisRoot] /\ movable[thisRoot] /\ log.moved = "null"

\* onFailedConnect on a connection whose root block is immovable and in the
\* workspace, with a connection whose root block is movable and in a flyout:
\* the flyout block is moved
C11_FlyoutBlockMoved ==
  /\ log.op = "onFailedConnect" /\ ~dragging
  /\ ~movable[thisRoot] /\ ~isInFlyout[thisRoot]
  /\ movable[otherRoot] /\ isInFlyout[otherRoot]
  /\ log.moved = otherRoot

C12_WitnessNeither ==
  /\ log.op = "onFailedConnect" /\ ~dragging
  /\ ~isInFlyout[thisRoot] /\ ~movable[thisRoot] /\ ~movable[otherRoot]
  /\ log.moved = "null"

----------------------------------------------------------------------------
(* The life of a connection: constructed, placed by its first moveTo,      *)
(* hidden and shown again, disposed.                                       *)

\* Connection.prototype.dispose, the part of dispose in the base class: the
\* connection must be disconnected; coordinates, hidden_ and inDB_ are left
\* alone
superDispose(s, c) == s

disposeKeepInIndex(s, c) == superDispose(s, c)

disposeAlways(s, c) == removeConnection_(superDispose(s, c), c)

\* RenderedConnection.prototype.dispose
dispose(s, c) ==
  LET s1 == superDispose(s, c)
  IN IF s1.inDB_[c] THEN removeConnection_(s1, c) ELSE s1

\* the connections that are placed, hidden and disposed one by one
LifeConns == {"n1", "p4"}

LifeMoveTo ==
  \E c \in LifeConns, x \in Xs, y \in Ys :
    /\ Apply(moveTo(State, c, x, y))
    /\ called' = called \cup {c}
    /\ placed' = placed \cup {c}
    /\ UNCHANGED <<disposed, farVars, offsetInBlock_, ret, blockVars, bumpVars>>

LifeSetHidden ==
  \E c \in LifeConns, h \in BOOLEAN :
    /\ Apply(setHidden(State, c, h))
    /\ called' = called \cup {c}
    /\ UNCHANGED <<disposed, placed, farVars, offsetInBlock_, ret, blockVars,
                   bumpVars>>

LifeHideAll ==
  \E c \in Conns :
    /\ ApplyHide(hideAll(HideState, targetConnection, c))
    /\ UNCHANGED <<disposed, placed, farVars, offsetInBlock_, called, ret,
                   bumpVars, targetConnection, rendered, collapsed_, log>>

LifeUnhideAll ==
  \E c \in Conns :
    /\ ApplyHide(unhideAll(HideState, targetConnection, collapsed_, c).st)
    /\ UNCHANGED <<disposed, placed, farVars, offsetInBlock_, called, ret,
                   bumpVars, targetConnection, rendered, collapsed_, log>>

Dispose ==
  \E c \in LifeConns :
    /\ c \notin disposed
    /\ targetConnection[c] = "null"
    /\ Apply(dispose(State, c))
    /\ disposed' = disposed \cup {c}
    /\ UNCHANGED <<placed, farVars, offsetInBlock_, called, ret, blockVars,
                   bumpVars>>

\* the blocks as loaded: b2 over b1 and b3 in the input of b1 are connected,
\* b4 lies free; no connection has been placed yet
InitLife ==
  /\ InitBump
  /\ targetConnection =
       superConnect_(superConnect_([c \in Conns |-> "null"], "n2", "p1"),
                     "i1", "o3")
  /\ rendered = [b \in Blocks |-> FALSE]
  /\ collapsed_ = [b \in Blocks |-> FALSE]
  /\ bubbleVisible = [b \in Blocks |-> FALSE]
  /\ log = NoLog
  /\ x_ = [c \in Conns |-> 0]
  /\ y_ = [c \in Conns |-> 0]
  /\ offsetInBlock_ = [c \in Conns |-> <<0, 0>>]
  /\ inDB_ = [c \in Conns |-> FALSE]
  /\ hidden_ = [c \in Conns |-> ~(db_(c) \in connectionDBList)]
  /\ connections_ = [t \in Types |-> <<>>]
  /\ called = {}
  /\ ret = NoRet
  /\ disposed = {}
  /\ placed = {}
  /\ InitFar

NextLife ==
  LifeMoveTo \/ LifeSetHidden \/ LifeHideAll \/ LifeUnhideAll \/ Dispose

SpecLife == InitLife /\ [][NextLife]_vars

\* the entries of all indexes
Entries == UNION {Range(connections_[t]) : t \in Types}

\* C13: setHidden, hideAll and unhideAll never change the workspace
\* coordinates of a connection or its offset within its block; all they
\* change of a connection is the hidden flag and the membership of the index,
\* and a connection that is in the index again is stored there under the
\* coordinates it kept.
C13_HidingRetainsCoordinates ==
  [][(LifeSetHidden \/ LifeHideAll \/ LifeUnhideAll) =>
       /\ x_' = x_ /\ y_' = y_ /\ offsetInBlock_' = offsetInBlock_
       /\ \A t \in Types : \A i \in 1..Len(connections_'[t]) :
            LET e == connections_'[t][i]
            IN e \in Entries \/ (e.x = x_[e.c] /\ e.y = y_[e.c])]_vars

\* a connection placed away from the origin was hidden and is shown again
\* at its place
C13_Witness ==
  \E c \in placed :
    /\ c \in LifeConns /\ c \notin disposed
    /\ x_[c] # 0 /\ y_[c] # 0
    /\ ~hidden_[c]
    /\ [c |-> c, x |-> x_[c], y |-> y_[c]] \in Entries
    /\ hidden_["n2"] /\ hidden_["p1"]

\* C14: once dispose has been called on a connection it is absent from its
\* spatial index in every later state, also after later moveTo, moveBy or
\* setHidden(false) calls on it.
C14_DisposedStaysAbsent ==
  \A c \in disposed : ~InIndex(c) /\ ~inDB_[c]

\* a disposed connection is in the index again
C14_DisposedInIndex ==
  \E c \in disposed : InIndex(c) /\ inDB_[c] /\ ~hidden_[c]

\* C15: a connection that was constructed and has had no moveTo yet is never
\* present in the index, whatever setHidden, hideAll and unhideAll calls were
\* made before its first moveTo.
C15_UnplacedNotIndexed ==
  \A c \in Conns \ placed : ~InIndex(c) /\ ~inDB_[c]

\* a connection without a first moveTo is in the index, stored at (0, 0)
C15_UnplacedInIndex ==
  \E c \in Conns \ (placed \cup disposed) :
    /\ InIndex(c) /\ inDB_[c]
    /\ [c |-> c, x |-> 0, y |-> 0] \in Entries

----------------------------------------------------------------------------
(* The path object of a block: setPaths at every render, flipRTL at every  *)
(* render of a right-to-left block.                                        *)

SetPaths ==
  \E mainPath \in Paths, highlightPath \in Paths :
    /\ attributes' = setPaths(attributes, mainPath, highlightPath)
    /\ pathLog' = [op |-> "setPaths", mainPath |-> mainPath,
                   highlightPath |-> highlightPath]
    /\ UNCHANGED <<svgRoot, flips, connVars, rowVars, lateVars>>

FlipRTL ==
  /\ flips < MaxFlips
  /\ attributes' = flipRTL(attributes)
  /\ flips' = flips + 1
  /\ pathLog' = [NoPathLog EXCEPT !.op = "flipRTL"]
  /\ UNCHANGED <<svgRoot, connVars, rowVars, lateVars>>

NextPath == SetPaths \/ FlipRTL

SpecPath == Init /\ [][NextPath]_vars

\* the three path elements
PathElems == {"svgPathDark", "svgPath", "svgPathLight"}

\* the transform attributes of the three paths
Transforms(attrs) == [e \in PathElems |-> transformOf(attrs, e)]

\* C16 as stated: after two flipRTL calls the transform attributes are as they
\* were before the first call: 'translate(1,1)' on the dark path and none on
\* the primary and light paths.
C16_TwoFlipsRestore ==
  flips = 2 =>
    /\ Transforms(attributes) = Transforms(PathObject.attributes)
    /\ transformOf(attributes, "svgPathDark") = Translate11
    /\ "transform" \notin DOMAIN attributes["svgPath"]
    /\ "transform" \notin DOMAIN attributes["svgPathLight"]

\* C16, amended: flipRTL is idempotent on the transform attributes: after the
\* first call and after every later call the dark path has
\* 'translate(1,1) scale(-1 1)' and the primary and light paths have
\* 'scale(-1 1)'; a second call changes no attribute and does not bring back
\* the values from before the first call.
C16_FlipIdempotent ==
  [][pathLog'.op = "flipRTL" =>
       /\ transformOf(attributes', "svgPathDark") = Translate11 \o Mirror
       /\ transformOf(attributes', "svgPath") = Mirror
       /\ transformOf(attributes', "svgPathLight") = Mirror
       /\ flips >= 1 => attributes' = attributes
       /\ Transforms(attributes') # Transforms(PathObject.attributes)]_vars

\* flipRTL was called twice
C16_Witness ==
  /\ flips = 2 /\ pathLog.op = "flipRTL"
  /\ transformOf(attributes, "svgPath") = Mirror

\* C17: setPaths(mainPath, highlightPath) writes mainPath as the path data of
\* the primary and of the dark path and highlightPath as the path data of the
\* light path, changes no transform attribute (and no other attribute), and
\* the three elements are the children of the root in the order dark,
\* primary, light.
C17_SetPathsWrites ==
  [][pathLog'.op = "setPaths" =>
       /\ attributes'["svgPath"].d = pathLog'.mainPath
       /\ attributes'["svgPathDark"].d = pathLog'.mainPath
       /\ attributes'["svgPathLight"].d = pathLog'.highlightPath
       /\ \A e \in PathElems :
            \A k \in DOMAIN attributes'[e] \ {"d"} :
              k \in DOMAIN attributes[e] /\ attributes'[e][k] = attributes[e][k]
       /\ \A e \in PathElems :
            DOMAIN attributes[e] \subseteq DOMAIN attributes'[e]
       /\ svgRoot' = <<"svgPathDark", "svgPath", "svgPathLight">>
       /\ svgRoot' = svgRoot]_vars

\* setPaths with two different paths on a flipped path object that held
\* other paths before
C17_Witness ==
  /\ pathLog.op = "setPaths" /\ pathLog.mainPath # pathLog.highlightPath
  /\ flips >= 1
  /\ attributes["svgPathDark"].d = pathLog.mainPath
  /\ attributes["svgPathLight"].d = pathLog.highlightPath

\* C18: in every state reached by setPaths and flipRTL calls the transform of
\* the dark path contains the (1,1) translation, and once flipRTL has been
\* called all three paths are mirrored horizontally, the dark path being
\* translated first.
C18_DarkKeepsTranslation ==
  /\ \E i \in 1..Len(transformOf(attributes, "svgPathDark")) :
       transformOf(attributes, "svgPathDark")[i] = "translate(1,1)"
  /\ flips >= 1 =>
       /\ \A e \in PathElems :
            \E i \in 1..Len(transformOf(attributes, e)) :
              transformOf(attributes, e)[i] = "scale(-1 1)"
       /\ Head(transformOf(attributes, "svgPathDark")) = "translate(1,1)"

\* the path object was flipped and then given paths
C18_Witness ==
  /\ flips >= 1 /\ pathLog.op = "setPaths"
  /\ Len(transformOf(attributes, "svgPathDark")) = 2

----------------------------------------------------------------------------
(* The measure pass over the rows of a block: the elements are spaced, the *)
(* rows measured, and each row padded to the width it is to have.          *)

\* the largest missing space, in pixels
MaxMissing == 3

\* the missing space a row is padded with
MissingSpaces == {k * Px : k \in 1..MaxMissing}

\* the elements of the top row, the input row and the bottom row of the
\* blocks followed
TopElems == {<<Elem("LEFT_ROUND_CORNER", constants_.CORNER_RADIUS)>>, <<Elem("LEFT_SQUARE_CORNER", constants_.NO_PADDING), ConnectionElem("PREVIOUS_CONNECTION")>>,
             <<Elem("LEFT_SQUARE_CORNER", constants_.NO_PADDING), Elem("HAT", 0)>>}
InputElems ==
  {<<Field(FieldWidth, FALSE)>>,
   <<Field(FieldWidth, TRUE), Elem("EXTERNAL_VALUE_INPUT", InputWidth)>>,
   <<Elem("ICON", FieldWidth), Field(FieldWidth, FALSE), Elem("INLINE_INPUT", InputWidth),
     Field(FieldWidth, TRUE)>>,
   <<Field(FieldWidth, FALSE), Elem("STATEMENT_INPUT", InputWidth)>>}
BottomElems == {<<Elem("LEFT_SQUARE_CORNER", constants_.NO_PADDING)>>, <<Elem("LEFT_SQUARE_CORNER", constants_.NO_PADDING), ConnectionElem("NEXT_CONNECTION")>>}
Aligns == {ALIGN_LEFT, ALIGN_CENTRE, ALIGN_RIGHT, NoAlign}

\* the rows of a block as created by the measure pass
InitMeasure ==
  /\ InitConn
  /\ InitPath
  /\ InitLate
  /\ \E top \in TopElems, middle \in InputElems, align \in Aligns,
        bottom \in BottomElems :
       rows = BlockRows(top, middle, align, bottom)
  /\ oldRows = rows
  /\ rowPhase = "created"
  /\ rowLog = NoRowLog

AddElemSpacing ==
  /\ rowPhase = "created"
  /\ rows' = addElemSpacing_(rows)
  /\ rowPhase' = "spaced"
  /\ rowLog' = [NoRowLog EXCEPT !.op = "addElemSpacing_"]
  /\ UNCHANGED <<oldRows, connVars, pathVars, lateVars>>

\* RenderInfo.prototype.computeBounds_: every row is measured
ComputeBounds ==
  /\ rowPhase = "spaced"
  /\ rows' = [i \in 1..Len(rows) |-> measure(rows[i])]
  /\ rowPhase' = "measured"
  /\ rowLog' = [NoRowLog EXCEPT !.op = "computeBounds_"]
  /\ UNCHANGED <<oldRows, connVars, pathVars, lateVars>>

\* RenderInfo.prototype.alignRowElements_: a row that is too narrow is padded,
\* once
AddAlignmentPadding ==
  \E i \in 1..Len(rows), missingSpace \in MissingSpaces :
    /\ rowPhase = "measured"
    /\ i \notin rowLog.padded
    /\ rows' = [rows EXCEPT ![i] = addAlignmentPadding_(rows[i], missingSpace)]
    /\ rowLog' = [NoRowLog EXCEPT !.op = "addAlignmentPadding_", !.row = i,
                                   !.missingSpace = missingSpace,
                                   !.padded = rowLog.padded \cup {i}]
    /\ UNCHANGED <<oldRows, rowPhase, connVars, pathVars, lateVars>>

NextMeasure == AddElemSpacing \/ ComputeBounds \/ AddAlignmentPadding

SpecMeasure == InitMeasure /\ [][NextMeasure]_vars

\* the elements of a row that are not spacers, in their order
NonSpacers(row) ==
  LET NotSpacer(e) == ~isSpacer(e) IN SelectSeq(row.elements, NotSpacer)

\* the spacers of a row, in their order
SpacerSeq(row) == SelectSeq(row.elements, isSpacer)

\* C19: the width of a row is conserved through spacing and alignment: once
\* the rows are measured, and after every addAlignmentPadding_, the widths of
\* the original elements of a row and of the spacers inserted into it add up
\* to row.width; addAlignmentPadding_ raises row.width by exactly missingSpace
\* and the total width of the spacers by exactly missingSpace, for every
\* align (left, centre, right, or none of them), and changes no other element
\* and no other row.
C19_RowWidthConserved ==
  [][/\ rowPhase' = "measured" =>
          \A i \in 1..Len(rows') :
            /\ NonSpacers(rows'[i]) = oldRows[i].elements
            /\ rows'[i].width = SumWidths(oldRows[i].elements)
                                  + SumWidths(SpacerSeq(rows'[i]))
            /\ rows'[i].width = SumWidths(rows'[i].elements)
            /\ rows'[i].error = "none"
     /\ rowLog'.op = "addAlignmentPadding_" =>
          LET i == rowLog'.row
              missingSpace == rowLog'.missingSpace
          IN /\ rows'[i].width = rows[i].width + missingSpace
             /\ rows'[i].width = SumWidths(rows'[i].elements)
             /\ NonSpacers(rows'[i]) = oldRows[i].elements
             /\ rows'[i].error = "none"
             /\ SumWidths(SpacerSeq(rows'[i]))
                  = SumWidths(SpacerSeq(rows[i])) + missingSpace
             /\ \A j \in 1..Len(rows) : j # i => rows'[j] = rows[j]]_vars

\* a centred row with a leading and a trailing spacer was padded with an odd
\* number of pixels, and so was a top row with a single spacer
C19_Witness ==
  /\ rowLog.op = "addAlignmentPadding_" /\ rowLog.padded = {1, 2}
  /\ rows[2].align = ALIGN_CENTRE /\ Cardinality(Spacers(rows[2])) >= 3
  /\ rows[2].width = SumWidths(rows[2].elements)
  /\ rows[2].width - SumWidths(oldRows[2].elements)
       - SumWidths(SpacerSeq(addElemSpacing_(oldRows)[2])) = 3 * Px
  /\ Cardinality(Spacers(rows[1])) = 1

\* how much wider the spacer at a place of the padded row has become
Share(i, spacer) == rows'[i].elements[spacer].width - rows[i].elements[spacer].width

\* C20: addAlignmentPadding_ distributes the missing space by the align of the
\* row: on a left-aligned row all of it goes to the last spacer, on a
\* right-aligned row all of it goes to the first spacer, on a centred row the
\* first and the last spacer get shares that differ by at most 1 (half of it
\* each; all of it when the row has a single spacer); no other spacer
\* changes.
C20_PaddingByAlignment ==
  [][rowLog'.op = "addAlignmentPadding_" =>
       LET i == rowLog'.row
           missingSpace == rowLog'.missingSpace
           firstSpacer == getFirstSpacer(rows[i])
           lastSpacer == getLastSpacer(rows[i])
       IN /\ Len(rows'[i].elements) = Len(rows[i].elements)
          /\ \A k \in 1..Len(rows[i].elements) :
               k \notin {firstSpacer, lastSpacer} => Share(i, k) = 0
          /\ rows[i].align = ALIGN_LEFT =>
               /\ Share(i, lastSpacer) = missingSpace
               /\ firstSpacer # lastSpacer => Share(i, firstSpacer) = 0
          /\ rows[i].align = ALIGN_RIGHT =>
               /\ Share(i, firstSpacer) = missingSpace
               /\ firstSpacer # lastSpacer => Share(i, lastSpacer) = 0
          /\ (rows[i].align = ALIGN_CENTRE /\ firstSpacer # lastSpacer) =>
               /\ Share(i, firstSpacer) + Share(i, lastSpacer) = missingSpace
               /\ Share(i, firstSpacer) - Share(i, lastSpacer) \in {-1, 0, 1}
          /\ (rows[i].align = ALIGN_CENTRE /\ firstSpacer = lastSpacer) =>
               Share(i, firstSpacer) = missingSpace]_vars

\* a right-aligned input row with a leading and a trailing spacer was
\* padded: the leading spacer grew by the missing space
C20_Witness ==
  /\ rowLog.op = "addAlignmentPadding_" /\ rowLog.row = 2
  /\ rows[2].align = ALIGN_RIGHT
  /\ Cardinality(Spacers(rows[2])) >= 2
  /\ rows[2].elements[getFirstSpacer(rows[2])].width
       = addElemSpacing_(oldRows)[2].elements[getFirstSpacer(rows[2])].width
           + rowLog.missingSpace

----------------------------------------------------------------------------
(* The layout of single blocks.                                            *)

\* the rows hold no previous or next connection and no input
NoConnections(rs) ==
  \A i \in 1..Len(rs) : \A j \in 1..Len(rs[i].elements) :
    ~isPreviousOrNextConnection(rs[i].elements[j]) /\ ~isInput(rs[i].elements[j])

\* the block has one input, a dummy input that holds one non-editable field
OneDummyField(rs) ==
  /\ Len(SelectSeq(rs, LAMBDA r : r.kind = "input")) = 1
  /\ rs[2].kind = "input"
  /\ rs[2].hasDummyInput
  /\ Len(rs[2].elements) = 1
  /\ isA(rs[2].elements[1], "FIELD") /\ ~Editable(rs[2].elements[1])

----------------------------------------------------------------------------
(* The spacing rules on their own: getInRowSpacing_ for every pair of      *)
(* elements, and addElemSpacing_ on rows of every length from 0.           *)

\* one element of every type, a field of either editability, and null
AllElems ==
  {NoElem, Field(FieldWidth, TRUE), Field(FieldWidth, FALSE),
   Elem("ICON", FieldWidth), Elem("HAT", 0), Elem("JAGGED_EDGE", 0),
   Elem("LEFT_SQUARE_CORNER", constants_.NO_PADDING),
   Elem("LEFT_ROUND_CORNER", constants_.CORNER_RADIUS),
   ConnectionElem("PREVIOUS_CONNECTION"), ConnectionElem("NEXT_CONNECTION"),
   Elem("INLINE_INPUT", InputWidth), Elem("EXTERNAL_VALUE_INPUT", InputWidth),
   Elem("STATEMENT_INPUT", InputWidth)}

\* the rows of a block as created; a dummy input may hold no field at all,
\* and the top and bottom row may or may not end with a spacer
InitSpacing ==
  /\ InitConn
  /\ InitPath
  /\ InitLate
  /\ \E top \in TopElems, middle \in InputElems \cup {<<>>},
        bottom \in BottomElems, ends \in BOOLEAN :
       LET rs == BlockRows(top, middle, ALIGN_LEFT, bottom)
       IN rows = [rs EXCEPT ![1].endsWithElemSpacer = ends,
                            ![3].endsWithElemSpacer = ends]
  /\ oldRows = rows
  /\ rowPhase = "created"
  /\ rowLog = NoRowLog

\* getInRowSpacing_(prev, next) is called and returns
GetInRowSpacing ==
  \E prev \in AllElems, next \in AllElems :
    /\ rowLog' = [NoRowLog EXCEPT !.op = "getInRowSpacing_", !.prev = prev,
                                   !.next = next,
                                   !.spacing = getInRowSpacing_(prev, next)]
    /\ UNCHANGED <<rows, oldRows, rowPhase, connVars, pathVars, lateVars>>

NextSpacing == AddElemSpacing \/ GetInRowSpacing

SpecSpacing == InitSpacing /\ [][NextSpacing]_vars

\* no rule enumerated in getInRowSpacing_ is for the pair: both are given, the
\* second is not a jagged edge, and the pair is an input before an input, an
\* external or statement input before anything, or two non-inputs of
\* different editability that no rule for an icon or a corner covers
Unruled(prev, next) ==
  /\ Given(prev) /\ Given(next)
  /\ ~isA(next, "JAGGED_EDGE")
  /\ \/ isInput(prev) /\ isInput(next)
     \/ /\ isA(prev, "EXTERNAL_VALUE_INPUT") \/ isA(prev, "STATEMENT_INPUT")
        /\ ~isInput(next)
     \/ /\ ~isInput(prev) /\ ~isInput(next)
        /\ ~isA(prev, "ICON") /\ ~isA(prev, "LEFT_ROUND_CORNER")
        /\ ~(isA(prev, "LEFT_SQUARE_CORNER")
             /\ (isA(next, "HAT") \/ isPreviousOrNextConnection(next)))
        /\ prev.isEditable # next.isEditable

\* the pairs that more than one rule matches, with the value of the rule that
\* comes first in the source
FirstMatch(prev, next, spacing) ==
  /\ (~Given(prev) /\ isA(next, "FIELD") /\ Editable(next))
       => spacing = constants_.MEDIUM_PADDING
  /\ (~Given(prev) /\ isA(next, "JAGGED_EDGE")) => spacing = constants_.LARGE_PADDING
  /\ (isA(prev, "LEFT_ROUND_CORNER") /\ ~Given(next))
       => spacing = constants_.MIN_BLOCK_WIDTH
  /\ (isA(prev, "ICON") /\ isA(next, "FIELD") /\ Editable(next))
       => spacing = constants_.LARGE_PADDING
  /\ (isA(prev, "FIELD") /\ Editable(prev) /\ isA(next, "STATEMENT_INPUT"))
       => spacing = constants_.LARGE_PADDING - 1 * Px
  /\ (isA(prev, "LEFT_SQUARE_CORNER") /\ isA(next, "HAT"))
       => spacing = constants_.NO_PADDING
  /\ (isA(prev, "LEFT_SQUARE_CORNER") /\ isPreviousOrNextConnection(next))
       => spacing = next.notchOffset
  /\ (isA(prev, "INLINE_INPUT") /\ isA(next, "JAGGED_EDGE"))
       => spacing = constants_.LARGE_PADDING
  /\ (isA(prev, "EXTERNAL_VALUE_INPUT") /\ isA(next, "JAGGED_EDGE"))
       => spacing = constants_.LARGE_PADDING

C25_TableOnly ==
  rowLog.op = "getInRowSpacing_" =>
    /\ FirstMatch(rowLog.prev, rowLog.next, rowLog.spacing)
    /\ Unruled(rowLog.prev, rowLog.next) => rowLog.spacing = constants_.MEDIUM_PADDING
    /\ rowLog.spacing = constants_.MEDIUM_PADDING =>
         \/ Unruled(rowLog.prev, rowLog.next)
         \/ isA(rowLog.prev, "FIELD") /\ Editable(rowLog.prev) /\ ~Given(rowLog.next)
         \/ ~Given(rowLog.prev) /\ isA(rowLog.next, "FIELD") /\ Editable(rowLog.next)
         \/ isA(rowLog.prev, "INLINE_INPUT") /\ isA(rowLog.next, "FIELD")
              /\ Editable(rowLog.next)

PlaceOf(old, j) == (IF old.startsWithElemSpacer THEN 1 ELSE 0) + 2 * j - 1

\* C29: addElemSpacing_ keeps every original element of a row, in its
\* original order, puts exactly one spacer between every two adjacent
\* original elements, a spacer before the first if and only if
\* startsWithElemSpacer() holds, a spacer after the last if and only if
\* endsWithElemSpacer() holds, and adds no other element, for rows of any
\* length.
C29_SpacersOnlyBetween ==
  rowPhase = "spaced" =>
    \A i \in 1..Len(rows) :
      LET old == oldRows[i]
          new == rows[i].elements
          n == Len(old.elements)
          Kept == {PlaceOf(old, j) : j \in 1..n}
      IN /\ Len(new) = (IF old.startsWithElemSpacer THEN 1 ELSE 0)
                         + n + (IF n > 1 THEN n - 1 ELSE 0)
                         + (IF old.endsWithElemSpacer THEN 1 ELSE 0)
         /\ \A j \in 1..n : PlaceOf(old, j) <= Len(new)
                              /\ new[PlaceOf(old, j)] = old.elements[j]
         /\ \A k \in 1..Len(new) : k \notin Kept => isSpacer(new[k])

\* a dummy input without a field gave an empty row, and addElemSpacing_
\* pushed oldElems[-1], which is undefined, between its two spacers
C29_UndefinedPushed ==
  /\ rowPhase = "spaced"
  /\ oldRows[2].elements = <<>>
  /\ Len(rows[2].elements) = 3
  /\ rows[2].elements[2] = NoElem

\* C29 for the rows that have an element
C29_NonEmptyRows ==
  (rowPhase = "spaced" /\ oldRows[2].elements # <<>>) => C29_SpacersOnlyBetween

----------------------------------------------------------------------------
(* The finalize pass (finalize_, path_object.js 428-458): the rows get     *)
(* their place from a cursor that runs down the block.  Heights are        *)
(* counted in half pixels as the widths are.                               *)

\* RenderInfo.prototype.recordElemPositions_: the elements of the row get
\* their xPos and centerline, which are not followed; the row keeps its place
\* and size
recordElemPositions_(row) == row

finalizeRowCursorOnly(row, topRow, yCursor, startX) ==
  LET placedRow == [row EXCEPT !.yPos = yCursor, !.xPos = startX]
      cursor == yCursor + row.height
      heightWithoutHat == cursor - topRow.ascenderHeight
      diff == constants_.MIN_BLOCK_HEIGHT - heightWithoutHat
  IN IF row.kind = "bottom" /\ heightWithoutHat < constants_.MIN_BLOCK_HEIGHT
     THEN [row |-> recordElemPositions_(placedRow), yCursor |-> cursor + diff]
     ELSE [row |-> recordElemPositions_(placedRow), yCursor |-> cursor]

finalizeRowNoMinimum(row, topRow, yCursor, startX) ==
  LET placedRow == [row EXCEPT !.yPos = yCursor, !.xPos = startX]
  IN [row |-> recordElemPositions_(placedRow), yCursor |-> yCursor + row.height]

\* the body of the loop of finalize_ for one row: the row as placed and the
\* cursor after it
finalizeRow(row, topRow, yCursor, startX) ==
  LET placedRow == [row EXCEPT !.yPos = yCursor, !.xPos = startX]
      cursor == yCursor + row.height
      heightWithoutHat == cursor - topRow.ascenderHeight
      diff == constants_.MIN_BLOCK_HEIGHT - heightWithoutHat
  IN IF row.kind = "bottom" /\ heightWithoutHat < constants_.MIN_BLOCK_HEIGHT
     THEN [row |-> recordElemPositions_([placedRow EXCEPT !.height = @ + diff]),
           yCursor |-> cursor + diff]
     ELSE [row |-> recordElemPositions_(placedRow), yCursor |-> cursor]

RECURSIVE finalizeRows(_, _, _, _, _)
\* the loop of finalize_ from row i on: the rows, the cursor and the widest
\* row with connected blocks at its end
finalizeRows(rs, i, yCursor, widest, startX) ==
  IF i > Len(rs)
  THEN [rows |-> rs, yCursor |-> yCursor, widestRowWithConnectedBlocks |-> widest]
  ELSE LET step == finalizeRow(rs[i], rs[1], yCursor, startX)
           w == rs[i].widthWithConnectedBlocks
       IN finalizeRows([rs EXCEPT ![i] = step.row], i + 1, step.yCursor,
                       IF w > widest THEN w ELSE widest, startX)

\* Blockly.thrasos.RenderInfo.prototype.finalize_: the rows and the render
\* info after the pass; topRow is the first row and bottomRow the last
finalize_(inf, rs) ==
  LET done == finalizeRows(rs, 1, 0, 0, inf.startX)
      bottomRow == Len(rs)
  IN [rows |-> [done.rows EXCEPT ![bottomRow].baseline =
                                   done.yCursor - done.rows[bottomRow].descenderHeight],
      info |-> [inf EXCEPT !.widthWithChildren =
                             done.widestRowWithConnectedBlocks + inf.startX,
                           !.height = done.yCursor,
                           !.startY = done.rows[1].capline]]

\* the greatest number of rows between the top and the bottom row
MaxMiddleRows == 2

\* heights of rows, of the hat above the top row and of the notch below the
\* bottom row, and the left edge of the block
RowHeights == {0, 5 * Px, 30 * Px}
EdgeHeights == {0, 5 * Px}
AscenderHeights == {0, 15 * Px}
DescenderHeights == {0, 4 * Px}
StartXs == {0, 8 * Px}

\* a row as measured, of the given height; its elements are not followed
\* through this pass
MeasuredRow(kind, height) ==
  [Row(kind, <<>>, NoAlign) EXCEPT !.height = height,
                                    !.width = constants_.MIN_BLOCK_WIDTH,
                                    !.widthWithConnectedBlocks = constants_.MIN_BLOCK_WIDTH]

\* the rows of a block as measured: the top row holds the hat, if any, above
\* its cap line, and the bottom row the notch below its base line
InitFinal ==
  /\ InitConn
  /\ InitPath
  /\ InitTheme
  /\ InitTight
  /\ InitMore
  /\ \E n \in 0..MaxMiddleRows, heights \in [1..MaxMiddleRows -> RowHeights],
        top \in EdgeHeights, ascender \in AscenderHeights,
        bottom \in EdgeHeights, descender \in DescenderHeights :
       /\ \A i \in 1..MaxMiddleRows : i > n => heights[i] = 0
       /\ rows = <<[MeasuredRow("top", top + ascender)
                      EXCEPT !.ascenderHeight = ascender, !.capline = ascender]>>
                 \o [i \in 1..n |-> MeasuredRow("input", heights[i])]
                 \o <<[MeasuredRow("bottom", bottom + descender)
                         EXCEPT !.descenderHeight = descender]>>
  /\ \E startX \in StartXs : info = [NoInfo EXCEPT !.startX = startX]
  /\ oldRows = rows
  /\ rowPhase = "measured"
  /\ rowLog = NoRowLog

\* finalize_ runs, once per render
Finalize ==
  /\ rowPhase = "measured"
  /\ rows' = finalize_(info, rows).rows
  /\ info' = finalize_(info, rows).info
  /\ rowPhase' = "finalized"
  /\ rowLog' = [NoRowLog EXCEPT !.op = "finalize_"]
  /\ UNCHANGED <<oldRows, connVars, pathVars, themeVars, tightVars, moreVars>>

NextFinal == Finalize

SpecFinal == InitFinal /\ [][NextFinal]_vars

RECURSIVE SumHeights(_)
\* the sum of the heights of a list of rows
SumHeights(rs) == IF rs = <<>> THEN 0 ELSE Head(rs).height + SumHeights(Tail(rs))

\* C21: after finalize_ the rows tile the block vertically without gaps or
\* overlaps: the first row's yPos is 0, every later row's yPos is the yPos of
\* the row before it plus that row's final height, the block height is the
\* sum of the final heights of all rows, and only the bottom row's height
\* may have been increased by the pass (no height is decreased).
C21_RowsTile ==
  rowPhase = "finalized" =>
    /\ Len(rows) = Len(oldRows)
    /\ rows[1].yPos = 0
    /\ \A i \in 2..Len(rows) : rows[i].yPos = rows[i - 1].yPos + rows[i - 1].height
    /\ info.height = SumHeights(rows)
    /\ \A i \in 1..(Len(rows) - 1) : rows[i].height = oldRows[i].height
    /\ rows[Len(rows)].height >= oldRows[Len(rows)].height

\* a block of four rows that is too low was finalized: the bottom row was
\* made higher and the rows tile the new height
C21_Witness ==
  /\ rowPhase = "finalized"
  /\ Len(rows) = 4 /\ rows[2].height > 0 /\ rows[3].height > 0
  /\ rows[4].height > oldRows[4].height
  /\ rows[4].yPos = rows[2].height + rows[3].height + rows[1].height
  /\ info.height = SumHeights(rows)

\* C22: after finalize_ the block height less the height of the hat above
\* the top row (its ascender height) is at least MIN_BLOCK_HEIGHT; when the
\* natural height less the hat already is, no row height is changed; and the
\* bottom row's baseline is the final block height less the bottom row's
\* descender height.
C22_MinimumHeight ==
  rowPhase = "finalized" =>
    /\ info.height - rows[1].ascenderHeight >= constants_.MIN_BLOCK_HEIGHT
    /\ SumHeights(oldRows) - oldRows[1].ascenderHeight >= constants_.MIN_BLOCK_HEIGHT
         => /\ \A i \in 1..Len(rows) : rows[i].height = oldRows[i].height
            /\ info.height = SumHeights(oldRows)
    /\ rows[Len(rows)].baseline = info.height - rows[Len(rows)].descenderHeight

\* a block with a hat whose natural height reaches the minimum only with the
\* hat was finalized: the bottom row was inflated, by less than the minimum
C22_Witness ==
  /\ rowPhase = "finalized"
  /\ rows[1].ascenderHeight > 0
  /\ SumHeights(oldRows) >= constants_.MIN_BLOCK_HEIGHT
  /\ info.height > SumHeights(oldRows)
  /\ info.height - rows[1].ascenderHeight = constants_.MIN_BLOCK_HEIGHT
  /\ rows[Len(rows)].descenderHeight > 0
  /\ rows[Len(rows)].baseline < info.height

\* a block that is high enough was finalized and kept its row heights
C22_WitnessHighEnough ==
  /\ rowPhase = "finalized"
  /\ SumHeights(oldRows) - oldRows[1].ascenderHeight > constants_.MIN_BLOCK_HEIGHT
  /\ \A i \in 1..Len(rows) : rows[i].height = oldRows[i].height

----------------------------------------------------------------------------
(* The inputs of a block as measurables (src/unnamed/part_000): their size *)
(* comes from the shape of their connection and from the block connected   *)
(* to it.                                                                  *)

\* constants.shapeFor(connection): the notch of a statement input, the puzzle
\* tab of a value input
shapeFor(constants, connection) ==
  IF connection = "STATEMENT_INPUT"
  THEN [width |-> constants.NOTCH_WIDTH, height |-> constants.NOTCH_HEIGHT]
  ELSE [width |-> constants.TAB_WIDTH, height |-> constants.TAB_HEIGHT]

\* no block connected to an input (targetBlock() is null)
NoBlock == [connected |-> FALSE, width |-> 0, height |-> 0]

\* a block connected to an input, with what its getHeightWidth() returns
ConnectedBlock(width, height) ==
  [connected |-> TRUE, width |-> width, height |-> height]

\* an input of a block: the type of its measurable and the block connected
Input(kind, block) == [kind |-> kind, targetBlock |-> block]

\* Blockly.blockRendering.InputConnection: the measurable (width and height
\* 0 from Measurable), the shape from Connection, and the connected block
InputConnection(constants, input) ==
  [measurable |-> Elem(input.kind, 0),
   shape |-> shapeFor(constants, input.kind),
   connectedBlock |-> input.targetBlock.connected,
   connectedBlockWidth |-> IF input.targetBlock.connected
                           THEN input.targetBlock.width ELSE 0,
   connectedBlockHeight |-> IF input.targetBlock.connected
                            THEN input.targetBlock.height ELSE 0]

\* Blockly.blockRendering.InlineInput
InlineInput(constants, input) ==
  LET this == InputConnection(constants, input)
  IN IF ~this.connectedBlock
     THEN [this.measurable EXCEPT
             !.height = constants.EMPTY_INLINE_INPUT_HEIGHT,
             !.width = this.shape.width + constants.EMPTY_INLINE_INPUT_PADDING]
     ELSE [this.measurable EXCEPT !.width = this.connectedBlockWidth,
                                  !.height = this.connectedBlockHeight]

\* Blockly.blockRendering.StatementInput
StatementInput(constants, input) ==
  LET this == InputConnection(constants, input)
  IN [this.measurable EXCEPT
        !.height = IF ~this.connectedBlock
                   THEN constants.EMPTY_STATEMENT_INPUT_HEIGHT
                   ELSE this.connectedBlockHeight + constants.STATEMENT_BOTTOM_SPACER,
        !.width = constants.NOTCH_OFFSET_LEFT + this.shape.width]

\* Blockly.blockRendering.ExternalValueInput
ExternalValueInput(constants, input) ==
  LET this == InputConnection(constants, input)
  IN [this.measurable EXCEPT
        !.height = IF ~this.connectedBlock
                   THEN this.shape.height
                   ELSE this.connectedBlockHeight - 2 * constants.TAB_OFFSET_FROM_TOP,
        !.width = this.shape.width + constants.EXTERNAL_VALUE_INPUT_PADDING]

\* RenderInfo.prototype.addInput_: the measurable made for an input
addInput_(constants, input) ==
  IF input.kind = "INLINE_INPUT" THEN InlineInput(constants, input)
  ELSE IF input.kind = "STATEMENT_INPUT" THEN StatementInput(constants, input)
  ELSE ExternalValueInput(constants, input)

\* what getHeightWidth() of a connected block returns: width and height are 0
\* until the block has been rendered; a rendered block is at least
\* MIN_BLOCK_HEIGHT high
BlockSizes ==
  {ConnectedBlock(0, 0), ConnectedBlock(40 * Px, constants_.MIN_BLOCK_HEIGHT),
   ConnectedBlock(60 * Px, 60 * Px)}

\* the inputs a row may end with
Inputs ==
  {Input(kind, block) :
     kind \in {"INLINE_INPUT", "STATEMENT_INPUT", "EXTERNAL_VALUE_INPUT"},
     block \in {NoBlock} \cup BlockSizes}

\* the rows of a block whose input row holds a field so far
InitInputs ==
  /\ InitConn
  /\ InitPath
  /\ InitLate
  /\ \E top \in TopElems, bottom \in BottomElems, editable \in BOOLEAN :
       rows = BlockRows(top, <<Field(FieldWidth, editable)>>, ALIGN_LEFT, bottom)
  /\ oldRows = rows
  /\ rowPhase = "created"
  /\ rowLog = NoRowLog

\* createRows_ comes to the input after the field: its measurable is added to
\* the row
AddInput ==
  \E input \in Inputs :
    /\ rowPhase = "created"
    /\ rowLog.op = "none"
    /\ rows' = [rows EXCEPT ![2] = Row("input",
                                        @.elements \o <<addInput_(constants_, input)>>,
                                        @.align)]
    /\ oldRows' = rows'
    /\ rowLog' = [NoRowLog EXCEPT !.op = "addInput_"]
    /\ UNCHANGED <<rowPhase, connVars, pathVars, lateVars>>

NextInputs == AddInput \/ AddElemSpacing

SpecInputs == InitInputs /\ [][NextInputs]_vars

\* every element of every row has a width and a height of at least 0
NonNegative(rs) ==
  \A i \in 1..Len(rs) : \A j \in 1..Len(rs[i].elements) :
    rs[i].elements[j].width >= 0 /\ rs[i].elements[j].height >= 0

\* C24: every measurable produced by a measure pass has width >= 0 and
\* height >= 0, whatever the size of the connected blocks: the inline,
\* statement and external value inputs, connected or not, and the spacers
\* with the widths that getInRowSpacing_ returns.
C24_NonNegativeSizes == NonNegative(rows)

\* an external value input was measured whose connected block has not been
\* rendered yet (height 0): its height is -2 * TAB_OFFSET_FROM_TOP
C24_NegativeHeight ==
  /\ rowLog.op = "addInput_"
  /\ Len(rows[2].elements) = 2
  /\ isA(rows[2].elements[2], "EXTERNAL_VALUE_INPUT")
  /\ rows[2].elements[2].height = 0 - 2 * constants_.TAB_OFFSET_FROM_TOP

\* C24 for the measurables other than an external value input with a
\* connected block
C24_OtherMeasurables ==
  \A i \in 1..Len(rows) : \A j \in 1..Len(rows[i].elements) :
    LET e == rows[i].elements[j]
    IN /\ e.width >= 0
       /\ ~isA(e, "EXTERNAL_VALUE_INPUT") => e.height >= 0
       /\ e.height < 0 => e.height = 0 - 2 * constants_.TAB_OFFSET_FROM_TOP

----------------------------------------------------------------------------
(* Bumping from every starting position: the free block b4 has been        *)
(* dropped with its previous connection within the snap radius of the next *)
(* connection n1 at the end of the stack.                                  *)

\* how far from n1 the connection p4 is dropped, in each direction
DropOffsets == (1 - SNAP_RADIUS)..(SNAP_RADIUS - 1)

InitBumpFrom ==
  /\ \E ox \in DropOffsets, oy \in DropOffsets :
       LET s0 == placeAll(Constructed, ConnOrder)
           s == moveTo(s0, "p4", s0.x_["n1"] + ox, s0.y_["n1"] + oy)
       IN /\ x_ = s.x_ /\ y_ = s.y_ /\ hidden_ = s.hidden_ /\ inDB_ = s.inDB_
          /\ connections_ = s.connections_
  /\ offsetInBlock_ = [c \in Conns |-> offsetOf(c)]
  /\ called = Conns
  /\ disposed = {}
  /\ placed = Conns
  /\ InitFar
  /\ ret = NoRet
  /\ targetConnection = superConnect_([c \in Conns |-> "null"], "n2", "p1")
  /\ rendered = [b \in Blocks |-> TRUE]
  /\ collapsed_ = [b \in Blocks |-> FALSE]
  /\ bubbleVisible = [b \in Blocks |-> FALSE]
  /\ log = NoLog
  /\ dragging = FALSE
  /\ selected = "null"
  /\ isInFlyout = [b \in Blocks |-> FALSE]
  /\ \E m2, m4 \in BOOLEAN :
       movable = [b \in Blocks |-> (b # "b2" \/ m2) /\ (b # "b4" \/ m4)]
  /\ RTL \in BOOLEAN

NextBumpFrom == OnFailedConnect \/ LogReturn

SpecBumpFrom == InitBumpFrom /\ [][NextBumpFrom]_vars

\* C30: whenever onFailedConnect has moved a block (normal, right-to-left or
\* with the roles swapped), the two connections no longer interfere: the
\* distance between them after the move is at least SNAP_RADIUS, for every
\* starting position of the two connections and every jitter value.
C30_BumpedApart ==
  (log.op = "onFailedConnect" /\ log.moved # "null")
    => distanceFromSq(State, log.conn, log.child) >= SNAP_RADIUS * SNAP_RADIUS

\* the roles were swapped, the other connection's block was moved by
\* (SNAP_RADIUS + jitter) from where it was, and the two connections are
\* closer than SNAP_RADIUS
C30_StillClose ==
  /\ log.op = "onFailedConnect"
  /\ log.moved = otherRoot /\ log.moved # thisRoot
  /\ distanceFromSq(State, log.conn, log.child) < SNAP_RADIUS * SNAP_RADIUS

\* C30 when the roles are not swapped: the block of the connection
\* onFailedConnect was called on is the one moved
C30_NotSwapped ==
  (log.op = "onFailedConnect" /\ log.moved = thisRoot)
    => distanceFromSq(State, log.conn, log.child) >= 2 * SNAP_RADIUS * SNAP_RADIUS

----------------------------------------------------------------------------
(* tighten_ (part_001 216-231): the block on the other side of a           *)
(* connection is pulled to where this connection is.                       *)

\* the outcome of a call that changed nothing
NoTighten(s, xy) == [st |-> s, blockXY |-> xy, error |-> "none"]

tighten_MoveFirst(s, tc, xy, svg, c) ==
  LET dx == s.x_[tc[c]] - s.x_[c]
      dy == s.y_[tc[c]] - s.y_[c]
      block == targetBlock(tc, c)
      moved == moveConnections_(s, connectionsOfAll(getDescendants(tc, block)),
                                0 - dx, 0 - dy)
  IN IF dx # 0 \/ dy # 0
     THEN IF ~svg[block]
          THEN [st |-> moved, blockXY |-> xy, error |-> "block is not rendered."]
          ELSE [st |-> moved,
                blockXY |-> [xy EXCEPT ![block] = <<xy[block][1] - dx, xy[block][2] - dy>>],
                error |-> "none"]
     ELSE NoTighten(s, xy)

\* Blockly.RenderedConnection.prototype.tighten_: xy is where the SVG root of
\* each block is translated to (Blockly.utils.getRelativeXY), svg tells which
\* blocks have an SVG root; moveConnections_ moves the connections of the
\* block and of the blocks below it
tighten_(s, tc, xy, svg, c) ==
  LET dx == s.x_[tc[c]] - s.x_[c]
      dy == s.y_[tc[c]] - s.y_[c]
      block == targetBlock(tc, c)
  IN IF dx # 0 \/ dy # 0
     THEN IF ~svg[block]
          THEN [st |-> s, blockXY |-> xy, error |-> "block is not rendered."]
          ELSE [st |-> moveConnections_(s, connectionsOfAll(getDescendants(tc, block)),
                                        0 - dx, 0 - dy),
                blockXY |-> [xy EXCEPT ![block] = <<xy[block][1] - dx, xy[block][2] - dy>>],
                error |-> "none"]
     ELSE NoTighten(s, xy)

\* how far a child block lies from where its parent's connection is
Gaps == {<<0, 0>>, <<StepX, 0>>, <<0, StepY>>}

\* the stack b2 over b1 with b3 in the input of b1 is connected; b1 (with b3)
\* and b3 lie a gap away from the connection they hang on; some blocks have
\* no SVG root
InitTightTree ==
  /\ \E g1 \in Gaps, g3 \in Gaps :
       LET tc == superConnect_(superConnect_([c \in Conns |-> "null"], "n2", "p1"),
                               "i1", "o3")
           s0 == placeAll(Constructed, ConnOrder)
           s1 == moveConnections_(s0, connectionsOfAll(getDescendants(tc, "b1")),
                                  g1[1], g1[2])
           s == moveConnections_(s1, connectionsOfAll(getDescendants(tc, "b3")),
                                 g3[1], g3[2])
       IN /\ x_ = s.x_ /\ y_ = s.y_ /\ hidden_ = s.hidden_ /\ inDB_ = s.inDB_
          /\ connections_ = s.connections_
          /\ targetConnection = tc
          /\ blockXY = [b \in Blocks |->
                          IF b = "b1" THEN <<blockTL(b)[1] + g1[1], blockTL(b)[2] + g1[2]>>
                          ELSE IF b = "b3"
                          THEN <<blockTL(b)[1] + g1[1] + g3[1],
                                 blockTL(b)[2] + g1[2] + g3[2]>>
                          ELSE blockTL(b)]
  /\ svgGroup_ \in [Blocks -> BOOLEAN]
  /\ svgGroup_["b4"]
  /\ tightLog = NoTightLog
  /\ offsetInBlock_ = [c \in Conns |-> offsetOf(c)]
  /\ called = Conns
  /\ disposed = {}
  /\ placed = Conns
  /\ InitPath /\ InitRows /\ InitTheme /\ info = NoInfo /\ InitMore
  /\ ret = NoRet
  /\ rendered = [b \in Blocks |-> svgGroup_[b]]
  /\ collapsed_ = [b \in Blocks |-> FALSE]
  /\ bubbleVisible = [b \in Blocks |-> FALSE]
  /\ log = NoLog
  /\ InitBump

\* tighten_ is called on a connected input or next connection of a block, as
\* the block's render does after it has moved its connections; an error ends
\* the call and leaves everything as it was
Tighten ==
  \E c \in {k \in Conns : targetConnection[k] # "null" /\ isSuperior(k)} :
    LET r == tighten_(State, targetConnection, blockXY, svgGroup_, c)
    IN /\ Apply(r.st)
       /\ blockXY' = r.blockXY
       /\ tightLog' = [op |-> "tighten_", conn |-> c, error |-> r.error]
       /\ UNCHANGED <<svgGroup_, offsetInBlock_, called, ret, blockVars, bumpVars,
                      disposed, placed, pathVars, rowVars, info, themeVars,
                      moreVars>>

NextTight == Tighten

SpecTight == InitTightTree /\ [][NextTight]_vars

\* connection c is not where its target is
Apart(c) ==
  x_[targetConnection[c]] # x_[c] \/ y_[targetConnection[c]] # y_[c]

\* C26: tighten_ on a connection that is not where its target is, when the
\* target block has no SVG root, raises the error 'block is not rendered.'
\* and changes nothing: no coordinates of a connection, no index and no
\* transform of a block; when the two are at the same place tighten_ changes
\* nothing either and raises no error.
C26_TightenUnrendered ==
  [][tightLog'.op = "tighten_" =>
       LET c == tightLog'.conn
           block == targetBlock(targetConnection, c)
       IN /\ (Apart(c) /\ ~svgGroup_[block]) =>
               /\ tightLog'.error = "block is not rendered."
               /\ UNCHANGED <<x_, y_, connections_, inDB_, hidden_, blockXY>>
          /\ ~Apart(c) =>
               /\ tightLog'.error = "none"
               /\ UNCHANGED <<x_, y_, connections_, inDB_, hidden_, blockXY>>]_vars

\* tighten_ was called on a connection apart from its target whose block has
\* no SVG root: the error was raised and the two are still apart
C26_Witness ==
  /\ tightLog.op = "tighten_"
  /\ tightLog.error = "block is not rendered."
  /\ Apart(tightLog.conn)
  /\ ~svgGroup_[targetBlock(targetConnection, tightLog.conn)]

\* tighten_ was called on a connection at the place of its target, whose
\* block has no SVG root: no error
C26_WitnessSamePlace ==
  /\ tightLog.op = "tighten_" /\ tightLog.error = "none"
  /\ ~Apart(tightLog.conn)
  /\ ~svgGroup_[targetBlock(targetConnection, tightLog.conn)]

\* tighten_ pulled a rendered block to the connection
C26_WitnessTightened ==
  /\ tightLog.op = "tighten_" /\ tightLog.error = "none"
  /\ blockXY["b1"] = blockTL("b1") /\ blockXY["b3"] # blockTL("b3")
  /\ ~Apart("n2")

----------------------------------------------------------------------------
(* Blockly.ThemeManager (src/core/theme_manager.js): the theme of a        *)
(* workspace, the workspaces subscribed to it and the elements styled by   *)
(* it.                                                                     *)

\* the theme manager and the styles it writes, as one value
ThemeState == [theme_ |-> theme_, subscribedWorkspaces_ |-> subscribedWorkspaces_,
               componentDB_ |-> componentDB_, style |-> style,
               events |-> <<>>, error |-> "none"]

\* Blockly.Theme.prototype.getComponentStyle: the style a theme defines for a
\* component name, undefined when it defines none
getComponentStyle(theme, componentName) ==
  CASE theme = "classic" /\ componentName = "toolbox" -> "#ddd"
    [] theme = "dark" /\ componentName = "toolbox" -> "#333"
    [] theme = "dark" /\ componentName = "flyoutBackground" -> "#252526"
    [] OTHER -> "undefined"

\* this.theme_ && this.theme_.getComponentStyle(key), then style || ''
styleOrEmpty(theme, componentName) ==
  IF theme = "null" \/ getComponentStyle(theme, componentName) = "undefined"
  THEN ""
  ELSE getComponentStyle(theme, componentName)

\* Array.prototype.indexOf: the index of the first occurrence counted from 0,
\* -1 when there is none
indexOf(list, x) ==
  IF \E i \in 1..Len(list) : list[i] = x
  THEN (CHOOSE i \in 1..Len(list) :
          list[i] = x /\ \A j \in 1..(i - 1) : list[j] # x) - 1
  ELSE -1

\* Array.prototype.splice(index, 1)
splice(list, index) ==
  [i \in 1..(Len(list) - 1) |-> IF i <= index THEN list[i] ELSE list[i + 1]]

\* Blockly.ThemeManager.prototype.subscribeWorkspace
subscribeWorkspace(tm, workspace) ==
  [tm EXCEPT !.subscribedWorkspaces_ = Append(@, workspace)]

unsubscribeWorkspaceEvery(tm, workspace) ==
  LET index == indexOf(tm.subscribedWorkspaces_, workspace)
  IN IF index < 0
     THEN [tm EXCEPT !.error =
             "Cannot unsubscribe a workspace that hasn't been subscribed."]
     ELSE [tm EXCEPT !.subscribedWorkspaces_ = SelectSeq(@, LAMBDA w : w # workspace)]

\* Blockly.ThemeManager.prototype.unsubscribeWorkspace
unsubscribeWorkspace(tm, workspace) ==
  LET index == indexOf(tm.subscribedWorkspaces_, workspace)
  IN IF index < 0
     THEN [tm EXCEPT !.error =
             "Cannot unsubscribe a workspace that hasn't been subscribed."]
     ELSE [tm EXCEPT !.subscribedWorkspaces_ = splice(@, index)]

RECURSIVE refreshWorkspaces(_, _)
\* the first loop of setTheme: workspace.refreshTheme() for every subscribed
\* workspace, in the order of the list
refreshWorkspaces(tm, workspaces) ==
  IF workspaces = <<>> THEN tm
  ELSE refreshWorkspaces(
         [tm EXCEPT !.events = Append(@, <<"refreshTheme", Head(workspaces)>>)],
         Tail(workspaces))

RECURSIVE refreshComponents(_, _, _)
\* the inner loop of setTheme: the style of every component of a name
refreshComponents(tm, key, components) ==
  IF components = <<>> THEN tm
  ELSE LET element == Head(components).element
           propertyName == Head(components).propertyName
       IN refreshComponents(
            [tm EXCEPT !.style[<<element, propertyName>>] = styleOrEmpty(tm.theme_, key),
                       !.events = Append(@, <<"style", element>>)],
            key, Tail(components))

RECURSIVE refreshKeys(_, _)
\* the second loop of setTheme: every component name of componentDB_
refreshKeys(tm, entries) ==
  IF entries = <<>> THEN tm
  ELSE refreshKeys(refreshComponents(tm, Head(entries).name, Head(entries).components),
                   Tail(entries))

setThemeAlways(tm, theme) ==
  LET set == [tm EXCEPT !.theme_ = theme]
  IN refreshKeys(refreshWorkspaces(set, set.subscribedWorkspaces_), set.componentDB_)

\* Blockly.ThemeManager.prototype.setTheme
setTheme(tm, theme) ==
  IF tm.theme_ = theme THEN tm
  ELSE LET set == [tm EXCEPT !.theme_ = theme]
       IN refreshKeys(refreshWorkspaces(set, set.subscribedWorkspaces_),
                      set.componentDB_)

\* the place of a component name in componentDB_, 0 when it has none
keyPlace(db, componentName) ==
  IF \E i \in 1..Len(db) : db[i].name = componentName
  THEN CHOOSE i \in 1..Len(db) : db[i].name = componentName
  ELSE 0

subscribeNoStyle(tm, element, componentName, propertyName) ==
  LET db == IF keyPlace(tm.componentDB_, componentName) = 0
            THEN Append(tm.componentDB_, [name |-> componentName, components |-> <<>>])
            ELSE tm.componentDB_
      k == keyPlace(db, componentName)
  IN [tm EXCEPT
        !.componentDB_ = [db EXCEPT ![k].components =
                            Append(@, [element |-> element,
                                       propertyName |-> propertyName])]]

\* Blockly.ThemeManager.prototype.subscribe
subscribe(tm, element, componentName, propertyName) ==
  LET db == IF keyPlace(tm.componentDB_, componentName) = 0
            THEN Append(tm.componentDB_, [name |-> componentName, components |-> <<>>])
            ELSE tm.componentDB_
      k == keyPlace(db, componentName)
  IN [tm EXCEPT
        !.componentDB_ = [db EXCEPT ![k].components =
                            Append(@, [element |-> element,
                                       propertyName |-> propertyName])],
        !.style[<<element, propertyName>>] = styleOrEmpty(tm.theme_, componentName)]

\* the most subscriptions of workspaces and of components followed
MaxWorkspaces == 3
MaxComponents == 2

RECURSIVE componentCount(_)
\* the number of components in componentDB_
componentCount(db) ==
  IF db = <<>> THEN 0 ELSE Len(Head(db).components) + componentCount(Tail(db))

\* a call on the theme manager returns, or ends with the error
ApplyTheme(tm, op, theme, workspace) ==
  /\ theme_' = tm.theme_
  /\ subscribedWorkspaces_' = tm.subscribedWorkspaces_
  /\ componentDB_' = tm.componentDB_
  /\ style' = tm.style
  /\ themeLog' = [op |-> op, theme |-> theme, workspace |-> workspace,
                  element |-> "null", events |-> tm.events, error |-> tm.error]
  /\ UNCHANGED <<connVars, pathVars, rowVars, info, tightVars, moreVars>>

SubscribeWorkspace ==
  \E workspace \in Workspaces :
    /\ Len(subscribedWorkspaces_) < MaxWorkspaces
    /\ ApplyTheme(subscribeWorkspace(ThemeState, workspace), "subscribeWorkspace",
                  "null", workspace)

UnsubscribeWorkspace ==
  \E workspace \in Workspaces :
    ApplyTheme(unsubscribeWorkspace(ThemeState, workspace), "unsubscribeWorkspace",
               "null", workspace)

SetTheme ==
  \E theme \in Themes :
    ApplyTheme(setTheme(ThemeState, theme), "setTheme", theme, "null")

Subscribe ==
  \E element \in Elements, componentName \in ComponentNames,
     propertyName \in PropertyNames :
    /\ componentCount(componentDB_) < MaxComponents
    /\ ApplyTheme(subscribe(ThemeState, element, componentName, propertyName),
                  "subscribe", "null", "null")

NextTheme == SubscribeWorkspace \/ UnsubscribeWorkspace \/ SetTheme \/ Subscribe

SpecTheme == Init /\ [][NextTheme]_vars

\* the number of times x occurs in a list
Count(list, x) == Cardinality({i \in 1..Len(list) : list[i] = x})

\* C27: unsubscribeWorkspace on a workspace that is not subscribed raises an
\* error and leaves the list of subscribed workspaces as it was; on a
\* subscribed workspace it removes exactly one subscription of that workspace
\* and no other: one entry of the workspace leaves the list and the other
\* entries keep their order.
C27_UnsubscribeWorkspace ==
  [][themeLog'.op = "unsubscribeWorkspace" =>
       LET workspace == themeLog'.workspace
           old == subscribedWorkspaces_
           new == subscribedWorkspaces_'
       IN /\ Count(old, workspace) = 0 =>
               /\ themeLog'.error # "none"
               /\ new = old
          /\ Count(old, workspace) > 0 =>
               /\ themeLog'.error = "none"
               /\ Count(new, workspace) = Count(old, workspace) - 1
               /\ \E i \in 1..Len(old) :
                    /\ old[i] = workspace
                    /\ new = SubSeq(old, 1, i - 1) \o SubSeq(old, i + 1, Len(old))
          /\ theme_' = theme_ /\ componentDB_' = componentDB_ /\ style' = style]_vars

\* a workspace subscribed twice was unsubscribed once and is still
\* subscribed once, after another workspace
C27_Witness ==
  /\ themeLog.op = "unsubscribeWorkspace" /\ themeLog.error = "none"
  /\ themeLog.workspace = "main"
  /\ subscribedWorkspaces_ = <<"flyout", "main">>

\* a workspace that is not subscribed was unsubscribed: the error was raised
C27_WitnessError ==
  /\ themeLog.op = "unsubscribeWorkspace"
  /\ themeLog.error = "Cannot unsubscribe a workspace that hasn't been subscribed."
  /\ subscribedWorkspaces_ = <<"flyout">>
  /\ themeLog.workspace = "main"

\* the workspaces refreshed by the last call, in the order of the calls
Refreshed ==
  SelectSeq(themeLog.events, LAMBDA ev : ev[1] = "refreshTheme")

\* in the last call every refresh of a workspace came before every write of
\* a style
RefreshesFirst ==
  \A i \in 1..Len(themeLog.events), j \in 1..Len(themeLog.events) :
    (themeLog.events[i][1] = "refreshTheme" /\ themeLog.events[j][1] = "style")
      => i < j

\* C28 as stated: setTheme with another theme runs refreshTheme once for every
\* workspace subscribed at the time of the call, all of them before any
\* component style is written; setTheme with the current theme triggers no
\* refresh and changes no style.
C28_RefreshOncePerWorkspace ==
  [][themeLog'.op = "setTheme" =>
       /\ themeLog'.theme # theme_ =>
            /\ \A w \in Workspaces :
                 Count(subscribedWorkspaces_, w) > 0 =>
                   Count(themeLog'.events, <<"refreshTheme", w>>) = 1
            /\ \A w \in Workspaces :
                 Count(subscribedWorkspaces_, w) = 0 =>
                   Count(themeLog'.events, <<"refreshTheme", w>>) = 0
            /\ RefreshesFirst'
       /\ themeLog'.theme = theme_ =>
            /\ themeLog'.events = <<>>
            /\ style' = style /\ theme_' = theme_]_vars

\* C28, per subscription: setTheme with another theme runs refreshTheme once
\* for every entry of the list of subscribed workspaces, in the order of the
\* list (a workspace subscribed twice is refreshed twice), all of them before
\* any component style is written; setTheme with the current theme triggers
\* no refresh and changes no style.
C28_RefreshPerSubscription ==
  [][themeLog'.op = "setTheme" =>
       /\ themeLog'.theme # theme_ =>
            /\ Refreshed' = [i \in 1..Len(subscribedWorkspaces_) |->
                               <<"refreshTheme", subscribedWorkspaces_[i]>>]
            /\ RefreshesFirst'
            /\ theme_' = themeLog'.theme
            /\ subscribedWorkspaces_' = subscribedWorkspaces_
       /\ themeLog'.theme = theme_ =>
            /\ themeLog'.events = <<>>
            /\ style' = style /\ theme_' = theme_]_vars

\* setTheme with another theme refreshed two workspaces, one of them twice,
\* and then wrote the style of a component
C28_Witness ==
  /\ themeLog.op = "setTheme" /\ theme_ = "dark"
  /\ Refreshed = <<<<"refreshTheme", "main">>, <<"refreshTheme", "flyout">>,
                   <<"refreshTheme", "main">>>>
  /\ Len(themeLog.events) > Len(Refreshed)

\* setTheme with the current theme, with a workspace and a component
\* subscribed: nothing refreshed
C28_WitnessSameTheme ==
  /\ themeLog.op = "setTheme" /\ themeLog.theme = theme_
  /\ themeLog.events = <<>>
  /\ subscribedWorkspaces_ # <<>> /\ componentDB_ # <<>>

----------------------------------------------------------------------------
(* The reach of hideAll and unhideAll.                                     *)

\* the connections whose hidden flag differs from the flag before the call
FlagChanged == {k \in Conns : hidden_[k] # (k \in log.hiddenBefore)}

\* the other connections of the block of c and those of its ancestors
UpStream(c) ==
  {k \in Conns \ {c} :
     \/ sourceBlock_(k) = sourceBlock_(c)
     \/ IsAncestor(targetConnection, sourceBlock_(k), sourceBlock_(c))}

\* C31: hideAll changes the hidden flag of no other connection of the
\* block of the connection it is called on and of no connection of an
\* ancestor of that block, whatever the type of the connection.
C31_HideAllDownStreamOnly ==
  log.op = "hideAll" => FlagChanged \cap UpStream(log.conn) = {}

\* hideAll on the connected previous connection of b1 has hidden the next
\* connection of the block above and the other connections of b1
C31_HidesUpStream ==
  /\ log.op = "hideAll" /\ log.conn = "p1"
  /\ targetConnection["p1"] = "n2"
  /\ log.hiddenBefore = {}
  /\ {"n2", "i1", "n1"} \subseteq FlagChanged

\* hideAll on an input or next connection changes nothing up-stream
C31_SuperiorDownStreamOnly ==
  (log.op = "hideAll" /\ isSuperior(log.conn))
    => FlagChanged \cap UpStream(log.conn) = {}

RECURSIVE beneathInputs(_, _)
\* the inputs of block b and every connection of the blocks attached
\* beneath them
beneathInputs(tc, b) ==
  LET ins == Range(inputConnections(b))
      below == UNION {Range(getDescendants(tc, targetBlock(tc, i))) :
                        i \in {j \in ins : tc[j] # "null"}}
  IN ins \cup UNION {Range(getConnections_(d)) : d \in below}

\* the collapsed blocks an unhideAll has reached
CollapsedReached ==
  {b \in Blocks :
     /\ collapsed_[b]
     /\ \E k \in log.unhidden :
          isSuperior(k) /\ targetBlock(targetConnection, k) = b}

\* C32: unhideAll reveals a collapsed block only partially: its output,
\* next and previous connections are unhidden, its input connections and
\* every connection of the blocks beneath them keep their hidden flag (a
\* hidden one stays hidden and out of the index), and the stack below its
\* next connection is revealed.
C32_CollapsedPartlyRevealed ==
  log.op = "unhideAll" =>
    \A b \in CollapsedReached :
      /\ Range(partialConnections(b)) \subseteq log.unhidden
      /\ \A k \in Range(partialConnections(b)) : ~hidden_[k]
      /\ \A k \in beneathInputs(targetConnection, b) :
           /\ k \notin log.unhidden
           /\ k \notin FlagChanged
           /\ k \in log.hiddenBefore => (hidden_[k] /\ ~inDB_[k] /\ ~InIndex(k))
      /\ LET n == nextConnection(b)
         IN (n # "null" /\ targetConnection[n] # "null") =>
              \A k \in Range(getConnections_(targetBlock(targetConnection, n))) :
                k \in log.unhidden /\ ~hidden_[k] /\ InIndex(k)

\* the whole stack was hidden; unhideAll on n2 reached the collapsed b1,
\* which has b3 on its input and b4 below
C32_Witness ==
  /\ log.op = "unhideAll" /\ log.conn = "n2"
  /\ collapsed_["b1"]
  /\ targetConnection["n2"] = "p1"
  /\ targetConnection["i1"] = "o3" /\ targetConnection["n1"] = "p4"
  /\ log.hiddenBefore = Conns
  /\ hidden_["i1"] /\ hidden_["o3"] /\ ~hidden_["p4"] /\ ~hidden_["n1"]

----------------------------------------------------------------------------
(* What the connection methods ask of the spatial indexes.                 *)

\* the state a method works on, with nothing asked yet
ApplyAsked(s) ==
  /\ ApplyHide(s)
  /\ asked' = s.asked

IndexMoveTo ==
  \E c \in LifeConns, x \in Xs, y \in Ys :
    /\ ApplyAsked(moveTo(HideState, c, x, y))
    /\ called' = called \cup {c}
    /\ placed' = placed \cup {c}
    /\ UNCHANGED <<disposed, offsetInBlock_, ret, bumpVars, targetConnection, log,
                   rendered, collapsed_, pathVars, rowVars, info, themeVars,
                   tightVars, beyondIndex>>

IndexMoveBy ==
  \E c \in LifeConns, dx \in {-StepX, StepX}, dy \in {-StepY, StepY} :
    /\ InRange(x_[c] + dx, y_[c] + dy)
    /\ ApplyAsked(moveBy(HideState, c, dx, dy))
    /\ called' = called \cup {c}
    /\ placed' = placed \cup {c}
    /\ UNCHANGED <<disposed, offsetInBlock_, ret, bumpVars, targetConnection, log,
                   rendered, collapsed_, pathVars, rowVars, info, themeVars,
                   tightVars, beyondIndex>>

IndexMoveToOffset ==
  \E c \in LifeConns, x \in Xs, y \in Ys :
    /\ ApplyAsked(moveToOffset(HideState, offsetInBlock_, c, <<x, y>>))
    /\ called' = called \cup {c}
    /\ placed' = placed \cup {c}
    /\ UNCHANGED <<disposed, offsetInBlock_, ret, bumpVars, targetConnection, rendered, log,
                   collapsed_, pathVars, rowVars, info, themeVars, tightVars, beyondIndex>>

IndexSetHidden ==
  \E c \in LifeConns, h \in BOOLEAN :
    /\ ApplyAsked(setHidden(HideState, c, h))
    /\ called' = called \cup {c}
    /\ UNCHANGED <<disposed, placed, offsetInBlock_, ret, bumpVars, log,
                   targetConnection, rendered, collapsed_, pathVars, rowVars,
                   info, themeVars, tightVars, beyondIndex>>

IndexHideAll ==
  \E c \in Conns :
    /\ ApplyAsked(hideAll(HideState, targetConnection, c))
    /\ UNCHANGED <<disposed, placed, offsetInBlock_, called, ret, bumpVars, log,
                   targetConnection, rendered, collapsed_, pathVars, rowVars,
                   info, themeVars, tightVars, beyondIndex>>

IndexUnhideAll ==
  \E c \in Conns :
    /\ ApplyAsked(unhideAll(HideState, targetConnection, collapsed_, c).st)
    /\ UNCHANGED <<disposed, placed, offsetInBlock_, called, ret, bumpVars, log,
                   targetConnection, rendered, collapsed_, pathVars, rowVars,
                   info, themeVars, tightVars, beyondIndex>>

IndexDispose ==
  \E c \in LifeConns :
    /\ c \notin disposed
    /\ targetConnection[c] = "null"
    /\ ApplyAsked(dispose(HideState, c))
    /\ disposed' = disposed \cup {c}
    /\ UNCHANGED <<placed, offsetInBlock_, called, ret, bumpVars, log,
                   targetConnection, rendered, collapsed_, pathVars, rowVars,
                   info, themeVars, tightVars, beyondIndex>>

NextIndex ==
  IndexMoveTo \/ IndexMoveBy \/ IndexMoveToOffset \/ IndexSetHidden
  \/ IndexHideAll \/ IndexUnhideAll \/ IndexDispose

SpecIndex == InitLife /\ [][NextIndex]_vars

\* C33: no moveTo, moveBy, moveToOffset, setHidden, hideAll, unhideAll or
\* dispose call asks an index to insert a connection that is in it or to
\* remove a connection that is not in it.
C33_NoDoubleInsertOrRemove ==
  \A i \in 1..Len(asked) :
    /\ asked[i].op = "insert" => ~asked[i].present
    /\ asked[i].op = "remove" => asked[i].present

\* a moveTo of an indexed connection asked for its removal and for its
\* insertion at the new place
C33_Witness ==
  \E c \in LifeConns :
    /\ asked = <<[op |-> "remove", c |-> c, present |-> TRUE],
                 [op |-> "insert", c |-> c, present |-> FALSE]>>
    /\ InIndex(c)

\* dispose of an indexed connection asked for its removal
C33_WitnessDispose ==
  \E c \in disposed :
    /\ asked = <<[op |-> "remove", c |-> c, present |-> TRUE]>>
    /\ ~InIndex(c)

\* hideAll of the stack below n2, of which one connection was hidden
\* already, asked for the removal of the others only
C33_WitnessHideAll ==
  /\ Len(asked) = 4
  /\ \A i \in 1..Len(asked) : asked[i].op = "remove" /\ asked[i].present
  /\ {asked[i].c : i \in 1..Len(asked)} \subseteq {"n2", "p1", "i1", "n1", "o3"}

----------------------------------------------------------------------------
(* setCheck and onCheckChanged_.  The calls made on blocks are kept as     *)
(* events: unplug() and bumpNeighbours().                                  *)

\* Block.prototype.unplug without healing: the output connection, or else
\* the previous connection, of the block is disconnected if it is connected
unplug(tc, rend, block) ==
  LET c == IF outputConnection(block) # "null" THEN outputConnection(block)
           ELSE previousConnection(block)
  IN IF c # "null" /\ tc[c] # "null"
     THEN disconnectInternal_(tc, rend, c, sourceBlock_(tc[c]), block)
                                                        .targetConnection
     ELSE tc

onCheckChanged_OwnBlock(tc, rend, chk, c) ==
  IF tc[c] # "null" /\ ~checkTypeWith(chk, c, tc[c])
  THEN [targetConnection |-> unplug(tc, rend, sourceBlock_(c)),
        events |-> <<[op |-> "unplug", block |-> sourceBlock_(c)],
                     [op |-> "bumpNeighbours", block |-> sourceBlock_(c)]>>]
  ELSE [targetConnection |-> tc, events |-> <<>>]

\* RenderedConnection.prototype.onCheckChanged_
onCheckChanged_(tc, rend, chk, c) ==
  IF tc[c] # "null" /\ ~checkTypeWith(chk, c, tc[c])
  THEN LET child == IF isSuperior(c) THEN targetBlock(tc, c)
                    ELSE sourceBlock_(c)
       IN [targetConnection |-> unplug(tc, rend, child),
           events |-> <<[op |-> "unplug", block |-> child],
                        [op |-> "bumpNeighbours", block |-> sourceBlock_(c)]>>]
  ELSE [targetConnection |-> tc, events |-> <<>>]

\* the type checks a connection is given
Checks == {{"null"}, {"A"}, {"B"}}

\* Connection.prototype.setCheck: the check is stored and onCheckChanged_
\* is called
SetCheck ==
  \E c \in Conns, newCheck \in Checks :
    LET chk == [check EXCEPT ![c] = newCheck]
        r == onCheckChanged_(targetConnection, rendered, chk, c)
    IN /\ check' = chk
       /\ targetConnection' = r.targetConnection
       /\ checkLog' = [op |-> "setCheck", conn |-> c,
                       before |-> targetConnection, events |-> r.events]
       /\ UNCHANGED <<x_, y_, offsetInBlock_, hidden_, inDB_, connections_,
                      called, ret, rendered, collapsed_, bubbleVisible, log,
                      bumpVars, disposed, placed, pathVars, rowVars, info,
                      themeVars, tightVars, beyondCheck>>

\* Connection.prototype.connect on two free connections that pass the type
\* check
CheckedConnect ==
  \E parentConnection \in Conns, childConnection \in Conns :
    /\ isSuperior(parentConnection)
    /\ type(childConnection) = OPPOSITE_TYPE(type(parentConnection))
    /\ targetConnection[parentConnection] = "null"
    /\ targetConnection[childConnection] = "null"
    /\ sourceBlock_(parentConnection) # sourceBlock_(childConnection)
    /\ checkTypeWith(check, parentConnection, childConnection)
    /\ sourceBlock_(parentConnection) \notin
         Range(getDescendants(targetConnection, sourceBlock_(childConnection)))
    /\ targetConnection' =
         connect_(targetConnection, rendered, parentConnection,
                  childConnection).targetConnection
    /\ checkLog' = NoCheckLog
    /\ UNCHANGED <<x_, y_, offsetInBlock_, hidden_, inDB_, connections_,
                   called, ret, rendered, collapsed_, bubbleVisible, log,
                   bumpVars, disposed, placed, pathVars, rowVars, info,
                   themeVars, tightVars, check, beyondCheck>>

NextCheck == SetCheck \/ CheckedConnect

SpecCheck == InitTree /\ [][NextCheck]_vars

\* C34: after onCheckChanged_ the connection is not connected to a target
\* that fails its type check.  If it was connected to an incompatible
\* target, the inferior block of the pair was unplugged, then the
\* neighbours of this connection's block were bumped, and the two are
\* apart; otherwise nothing was unplugged or bumped and every link is as it
\* was.
C34_NoIncompatibleTarget ==
  checkLog.op = "setCheck" =>
    LET c == checkLog.conn
        old == checkLog.before[c]
        inferior == IF isSuperior(c) THEN sourceBlock_(old)
                    ELSE sourceBlock_(c)
    IN /\ targetConnection[c] # "null"
            => checkTypeWith(check, c, targetConnection[c])
       /\ IF old # "null" /\ ~checkTypeWith(check, c, old)
          THEN /\ checkLog.events =
                    <<[op |-> "unplug", block |-> inferior],
                      [op |-> "bumpNeighbours", block |-> sourceBlock_(c)]>>
               /\ targetConnection =
                    [checkLog.before EXCEPT ![c] = "null", ![old] = "null"]
          ELSE /\ checkLog.events = <<>>
               /\ targetConnection = checkLog.before

\* the check of a connected next connection was narrowed to a type its
\* target does not take: the block below was unplugged
C34_Witness ==
  /\ checkLog.op = "setCheck" /\ checkLog.conn = "n1"
  /\ checkLog.before["n1"] = "p4"
  /\ check["n1"] = {"A"} /\ check["p4"] = {"B"}
  /\ checkLog.events = <<[op |-> "unplug", block |-> "b4"],
                         [op |-> "bumpNeighbours", block |-> "b1"]>>
  /\ targetConnection["n1"] = "null" /\ targetConnection["p4"] = "null"

\* the check of a connected previous connection was changed: its own block
\* was unplugged, the links below it stay
C34_WitnessInferior ==
  /\ checkLog.op = "setCheck" /\ checkLog.conn = "p1"
  /\ checkLog.before["p1"] = "n2" /\ checkLog.before["n1"] = "p4"
  /\ checkLog.events = <<[op |-> "unplug", block |-> "b1"],
                         [op |-> "bumpNeighbours", block |-> "b1"]>>
  /\ targetConnection["p1"] = "null" /\ targetConnection["n1"] = "p4"

\* the new check still fits the target: nothing happened
C34_WitnessCompatible ==
  /\ checkLog.op = "setCheck" /\ checkLog.conn = "n1"
  /\ checkLog.before["n1"] = "p4" /\ check["n1"] = {"B"}
  /\ check["p4"] = {"B"}
  /\ checkLog.events = <<>> /\ targetConnection["n1"] = "p4"

----------------------------------------------------------------------------
(* The components of the theme manager: subscribe, setTheme, unsubscribe.  *)

\* the subscriptions held: element, property and the component name
Subscriptions ==
  {<<componentDB_[k].components[i].element,
     componentDB_[k].components[i].propertyName, componentDB_[k].name>> :
     <<k, i>> \in {ki \in (1..Len(componentDB_)) \X (1..MaxComponents) :
                     ki[2] <= Len(componentDB_[ki[1]].components)}}

\* the component names a property of an element is subscribed under
NamesOf(element, propertyName) ==
  {sub[3] : sub \in {t \in Subscriptions :
                       t[1] = element /\ t[2] = propertyName}}

C35_WitnessTwoNames ==
  /\ theme_ = "classic"
  /\ Subscriptions = {<<"div", "backgroundColor", "toolbox">>,
                      <<"div", "backgroundColor", "flyoutBackground">>}
  /\ style[<<"div", "backgroundColor">>] = ""
  /\ styleOrEmpty(theme_, "toolbox") = "#ddd"

RECURSIVE unsubscribeFrom(_, _)
\* the inner loop of unsubscribe: from the last entry to the first, every
\* entry of the element is spliced out
unsubscribeFrom(elements, element) ==
  IF elements = <<>> THEN <<>>
  ELSE LET i == Len(elements)
           rest == unsubscribeFrom(SubSeq(elements, 1, i - 1), element)
       IN IF elements[i].element = element THEN rest
          ELSE Append(rest, elements[i])

RECURSIVE unsubscribeNames(_, _, _)
\* the loop of unsubscribe over Object.keys(componentDB_); a name whose list
\* is empty is deleted
unsubscribeNames(db, componentNames, element) ==
  IF componentNames = <<>> THEN db
  ELSE LET k == keyPlace(db, Head(componentNames))
           elements == unsubscribeFrom(db[k].components, element)
           db1 == IF Len(elements) = 0
                  THEN SubSeq(db, 1, k - 1) \o SubSeq(db, k + 1, Len(db))
                  ELSE [db EXCEPT ![k].components = elements]
       IN unsubscribeNames(db1, Tail(componentNames), element)

RECURSIVE unsubscribeNamesKeepEmpty(_, _, _)
unsubscribeNamesKeepEmpty(db, componentNames, element) ==
  IF componentNames = <<>> THEN db
  ELSE LET k == keyPlace(db, Head(componentNames))
           elements == unsubscribeFrom(db[k].components, element)
       IN unsubscribeNamesKeepEmpty([db EXCEPT ![k].components = elements],
                                    Tail(componentNames), element)

\* Object.keys(componentDB_)
keys(db) == [k \in 1..Len(db) |-> db[k].name]

unsubscribeKeepEmpty(tm, element) ==
  IF element = "null" THEN tm
  ELSE [tm EXCEPT !.componentDB_ =
          unsubscribeNamesKeepEmpty(@, keys(@), element)]

\* Blockly.ThemeManager.prototype.unsubscribe
unsubscribe(tm, element) ==
  IF element = "null" THEN tm
  ELSE [tm EXCEPT !.componentDB_ = unsubscribeNames(@, keys(@), element)]

\* the element has an entry in the list of the component name
HasEntry(db, name, element) ==
  \E i \in 1..Len(db[keyPlace(db, name)].components) :
    db[keyPlace(db, name)].components[i].element = element

\* the log keeps the component names the element had entries under
Unsubscribe ==
  \E element \in Elements \cup {"null"} :
    LET tm == unsubscribe(ThemeState, element)
    IN /\ componentDB_' = tm.componentDB_
       /\ style' = tm.style
       /\ themeLog' = [NoThemeLog EXCEPT
                         !.op = "unsubscribe", !.element = element,
                         !.events = SelectSeq(keys(componentDB_),
                                      LAMBDA name : HasEntry(componentDB_, name, element))]
       /\ UNCHANGED <<theme_, subscribedWorkspaces_, connVars, pathVars,
                      rowVars, info, tightVars, moreVars>>

NextComponents == Subscribe \/ SetTheme \/ Unsubscribe

SpecComponents == Init /\ [][NextComponents]_vars

\* the elements that have an entry in a list of components
Subscribed(db) ==
  {db[k].components[i].element :
     <<k, i>> \in {ki \in (1..Len(db)) \X (1..MaxComponents) :
                     ki[2] <= Len(db[ki[1]].components)}}

\* C36: after unsubscribe(element) no entry of a component list refers to
\* the element, the entries of other elements are as they were and in their
\* order, no component name has an empty list, and no style is changed; a
\* setTheme changes no style of an element that has no entry.
C36_Unsubscribe ==
  [][/\ themeLog'.op = "unsubscribe" =>
          LET element == themeLog'.element
              Other(entry) == entry.element # element
              old == componentDB_
              kept == SelectSeq([k \in 1..Len(old) |->
                                   [name |-> old[k].name,
                                    components |->
                                      SelectSeq(old[k].components, Other)]],
                                LAMBDA e : e.components # <<>>)
          IN /\ element \notin Subscribed(componentDB_')
             /\ componentDB_' = kept
             /\ \A k \in 1..Len(componentDB_') :
                  componentDB_'[k].components # <<>>
             /\ style' = style
     /\ themeLog'.op = "setTheme" =>
          \A element \in Elements \ Subscribed(componentDB_) :
            \A propertyName \in PropertyNames :
              style'[<<element, propertyName>>] = style[<<element, propertyName>>]
    ]_vars

\* an element that had an entry under a name shared with another element
\* has been unsubscribed: the entry of the other element stays
C36_Witness ==
  /\ themeLog.op = "unsubscribe" /\ themeLog.element = "div"
  /\ themeLog.events = <<"toolbox">>
  /\ componentDB_ = <<[name |-> "toolbox",
                       components |-> <<[element |-> "svg",
                                         propertyName |-> "fill"]>>]>>

\* an element that had entries under two names has been unsubscribed: both
\* names are gone
C36_WitnessTwoNames ==
  /\ themeLog.op = "unsubscribe" /\ themeLog.element = "div"
  /\ themeLog.events = <<"flyoutBackground", "toolbox">>
  /\ componentDB_ = <<>>

\* setTheme after an unsubscribe: the element that was unsubscribed keeps
\* the style of the old theme, the other element has the new style
C36_WitnessLater ==
  /\ themeLog.op = "setTheme" /\ theme_ = "dark"
  /\ Subscribed(componentDB_) = {"svg"}
  /\ style[<<"div", "backgroundColor">>] = "#ddd"
  /\ style[<<"svg", "backgroundColor">>] = "#333"

----------------------------------------------------------------------------
(* Blockly.tree.BaseNode (src/core/components/tree/basenode.js): the nodes *)
(* of the tree widget, their cached depths and the order in which the      *)
(* keyboard walks over them.                                               *)

\* the nodes as one value
TreeState == [parent_ |-> parent_, children_ |-> children_,
              previousSibling_ |-> previousSibling_,
              nextSibling_ |-> nextSibling_, depth_ |-> depth_,
              expanded_ |-> expanded_, error |-> "none"]

\* Component.prototype.getChildAt: the child at the 0-based index, null if
\* none
getChildAt(t, node, index) ==
  IF index >= 0 /\ index < Len(t.children_[node])
  THEN t.children_[node][index + 1]
  ELSE "null"

\* Component.prototype.getChildCount
getChildCount(t, node) == Len(t.children_[node])

\* Component.prototype.addChildAt: the child gets its parent and its place
\* in the list of children
superAddChildAt(t, node, child, index) ==
  LET old == t.children_[node]
  IN [t EXCEPT !.parent_[child] = node,
               !.children_[node] =
                  SubSeq(old, 1, index) \o <<child>> \o SubSeq(old, index + 1, Len(old))]

RECURSIVE setDepth_(_, _, _)
RECURSIVE setDepthEach(_, _, _)
RECURSIVE getDepth(_, _)

\* forEachChild in setDepth_: child.setDepth_(depth + 1)
setDepthEach(t, children, depth) ==
  IF children = <<>> THEN t
  ELSE setDepthEach(setDepth_(t, Head(children), depth), Tail(children), depth)

setDepth_Shallow(t, node, depth) ==
  IF depth # t.depth_[node] THEN [t EXCEPT !.depth_[node] = depth] ELSE t

\* Blockly.tree.BaseNode.prototype.setDepth_
setDepth_(t, node, depth) ==
  IF depth # t.depth_[node]
  THEN setDepthEach([t EXCEPT !.depth_[node] = depth], t.children_[node],
                    depth + 1)
  ELSE t

\* Blockly.tree.BaseNode.prototype.computeDepth_
computeDepth_(t, node) ==
  IF t.parent_[node] # "null"
  THEN LET r == getDepth(t, t.parent_[node])
       IN [t |-> r.t, depth |-> r.depth + 1]
  ELSE [t |-> t, depth |-> 0]

\* Blockly.tree.BaseNode.prototype.getDepth
getDepth(t, node) ==
  IF t.depth_[node] < 0
  THEN LET r == computeDepth_(t, node)
       IN [t |-> setDepth_(r.t, node, r.depth), depth |-> r.depth]
  ELSE [t |-> t, depth |-> t.depth_[node]]

\* Blockly.tree.BaseNode.prototype.addChildAt, as far as the nodes go
addChildAt(t, node, child, index) ==
  LET prevNode == getChildAt(t, node, index - 1)
      nextNode == getChildAt(t, node, index)
      t1 == superAddChildAt(t, node, child, index)
      t2 == [t1 EXCEPT !.previousSibling_[child] = prevNode,
                       !.nextSibling_[child] = nextNode]
      t3 == IF prevNode # "null"
            THEN [t2 EXCEPT !.nextSibling_[prevNode] = child] ELSE t2
      t4 == IF nextNode # "null"
            THEN [t3 EXCEPT !.previousSibling_[nextNode] = child] ELSE t3
      r == getDepth(t4, node)
  IN setDepth_(r.t, child, r.depth + 1)

\* Blockly.tree.BaseNode.prototype.add
add(t, node, child) ==
  IF t.parent_[child] # "null"
  THEN [t EXCEPT !.error = "Unable to set parent component"]
  ELSE addChildAt(t, node, child, getChildCount(t, node))

RECURSIVE ancestors(_, _)
\* the ancestors of a node, the nearest first
ancestors(par, node) ==
  IF par[node] = "null" THEN <<>>
  ELSE <<par[node]>> \o ancestors(par, par[node])

ApplyTree(t, op, node, child) ==
  /\ parent_' = t.parent_
  /\ children_' = t.children_
  /\ previousSibling_' = t.previousSibling_
  /\ nextSibling_' = t.nextSibling_
  /\ depth_' = t.depth_
  /\ expanded_' = t.expanded_
  /\ treeLog' = [op |-> op, node |-> node, child |-> child, error |-> t.error]
  /\ UNCHANGED <<tree, connVars, pathVars, rowVars, info, themeVars, tightVars,
                 beyondTree>>

\* adding a node to itself or to one of its descendants makes no tree; the
\* tree control is the root of its tree
Attachable(node, child) ==
  /\ child # node
  /\ child \notin Range(ancestors(parent_, node))
  /\ child # tree

Add ==
  \E node \in Nodes, child \in Nodes :
    /\ Attachable(node, child)
    /\ ApplyTree(add(TreeState, node, child), "add", node, child)

AddChildAt ==
  \E node \in Nodes, child \in Nodes :
    \E index \in 0..Len(children_[node]) :
      /\ Attachable(node, child)
      /\ parent_[child] = "null"
      /\ ApplyTree(addChildAt(TreeState, node, child, index), "addChildAt",
                   node, child)

GetDepth ==
  \E node \in Nodes :
    ApplyTree(getDepth(TreeState, node).t, "getDepth", node, "null")

NextTree == Add \/ AddChildAt \/ GetDepth

\* the nodes are plain nodes, or t is the tree control
InitTreeControl ==
  /\ InitConn /\ InitPath /\ InitRows /\ info = NoInfo /\ InitTheme
  /\ InitTight /\ InitIndex /\ InitCheck /\ InitNodes /\ InitField
  /\ tree \in {"null", "t"}

SpecTree == InitTreeControl /\ [][NextTree]_vars

\* the nodes after a step
TreeStateNext == [parent_ |-> parent_', children_ |-> children_',
                  previousSibling_ |-> previousSibling_',
                  nextSibling_ |-> nextSibling_', depth_ |-> depth_',
                  expanded_ |-> expanded_', error |-> "none"]

\* C37: after every add, addChildAt and getDepth, getDepth of every node is
\* the number of its ancestors, and a cached depth is that number; add on a
\* child that has a parent raises an error and changes no node, and raises
\* none otherwise.
C37_DepthIsAncestorCount ==
  [][/\ \A node \in Nodes :
          /\ getDepth(TreeStateNext, node).depth
               = Len(ancestors(parent_', node))
          /\ depth_'[node] \in {-1, Len(ancestors(parent_', node))}
     /\ treeLog'.op = "add" =>
          IF parent_[treeLog'.child] # "null"
          THEN /\ treeLog'.error # "none"
               /\ UNCHANGED <<parent_, children_, previousSibling_,
                              nextSibling_, depth_, expanded_>>
          ELSE /\ treeLog'.error = "none"
               /\ parent_'[treeLog'.child] = treeLog'.node
    ]_vars

\* a sub-tree whose depths were cached as 0 and 1 was attached below a node
\* at depth 1: its depths are 2 and 3
C37_Witness ==
  /\ treeLog.op \in {"add", "addChildAt"} /\ treeLog.error = "none"
  /\ \E n1, n2, n3, n4 \in Nodes :
       /\ parent_[n1] = "null" /\ parent_[n2] = n1 /\ parent_[n3] = n2
       /\ parent_[n4] = n3
       /\ treeLog.node = n2 /\ treeLog.child = n3
       /\ depth_ = (n1 :> 0) @@ (n2 :> 1) @@ (n3 :> 2) @@ (n4 :> 3)

\* add on a child that has a parent raised the error
C37_WitnessError ==
  /\ treeLog.op = "add" /\ treeLog.error = "Unable to set parent component"
  /\ parent_[treeLog.child] # "null"
  /\ parent_[treeLog.child] # treeLog.node

----------------------------------------------------------------------------
(* The shown nodes of the tree, in the order of the keyboard.              *)

RECURSIVE rootOf(_, _)
\* the node without a parent above a node
rootOf(par, node) == IF par[node] = "null" THEN node ELSE rootOf(par, par[node])

\* getTree: null for a plain node (BaseNode.prototype.getTree); the tree
\* control for the control and the nodes below it
getTree(t, node) ==
  IF tree # "null" /\ rootOf(t.parent_, node) = tree THEN tree ELSE "null"

\* Blockly.tree.BaseNode.prototype.hasChildren
hasChildren(t, node) == getChildCount(t, node) # 0

\* Blockly.tree.BaseNode.prototype.getFirstChild
getFirstChild(t, node) == getChildAt(t, node, 0)

\* Blockly.tree.BaseNode.prototype.getLastChild
getLastChild(t, node) == getChildAt(t, node, getChildCount(t, node) - 1)

getLastShownDescendantSelf(t, node) == node

RECURSIVE getLastShownDescendant(_, _)
\* Blockly.tree.BaseNode.prototype.getLastShownDescendant
getLastShownDescendant(t, node) ==
  IF ~t.expanded_[node] \/ ~hasChildren(t, node) THEN node
  ELSE getLastShownDescendant(t, getLastChild(t, node))

RECURSIVE nextOfAncestors(_, _, _)
\* the loop of getNextShownNode: up the parents until one has a next
\* sibling or the tree is reached
nextOfAncestors(t, node, parent) ==
  IF parent = getTree(t, node) THEN "null"
  ELSE IF t.nextSibling_[parent] # "null" THEN t.nextSibling_[parent]
  ELSE nextOfAncestors(t, node, t.parent_[parent])

\* Blockly.tree.BaseNode.prototype.getNextShownNode
getNextShownNode(t, node) ==
  IF hasChildren(t, node) /\ t.expanded_[node] THEN getFirstChild(t, node)
  ELSE nextOfAncestors(t, node, node)

\* Blockly.tree.BaseNode.prototype.getPreviousShownNode
getPreviousShownNode(t, node) ==
  LET ps == t.previousSibling_[node]
      parent == t.parent_[node]
  IN IF ps # "null" THEN getLastShownDescendant(t, ps)
     ELSE IF parent = getTree(t, node) THEN "null"
     ELSE IF node = getTree(t, node) THEN "null"
     ELSE parent

\* Blockly.tree.BaseNode.prototype.setExpanded, as far as the nodes go
setExpanded(t, node, expanded) == [t EXCEPT !.expanded_[node] = expanded]

SetExpanded ==
  \E node \in Nodes, expanded \in BOOLEAN :
    ApplyTree(setExpanded(TreeState, node, expanded), "setExpanded", node,
              "null")

NextShown == Add \/ SetExpanded

SpecShown == InitTreeControl /\ [][NextShown]_vars

\* a node is shown when every ancestor of it is expanded
Shown(node) == \A a \in Range(ancestors(parent_, node)) : expanded_[a]

\* C38: for every shown node n other than a root, if getNextShownNode(n) is
\* a node m then getPreviousShownNode(m) is n.
C38_NextThenPrevious ==
  \A n \in Nodes :
    (Shown(n) /\ parent_[n] # "null") =>
      LET m == getNextShownNode(TreeState, n)
      IN m # "null" => getPreviousShownNode(TreeState, m) = n

\* the next node of the last node of an expanded sub-tree two levels down
\* is the next sibling of the top of that sub-tree, and the way back leads
\* to it
C38_Witness ==
  \E n \in Nodes :
    /\ Shown(n) /\ Len(ancestors(parent_, n)) = 2
    /\ getNextShownNode(TreeState, n) = nextSibling_[parent_[n]]
    /\ nextSibling_[parent_[n]] # "null"
    /\ getPreviousShownNode(TreeState, nextSibling_[parent_[n]]) = n

\* below the tree control: the next node of an expanded node is its first
\* child, and the way back leads to it
C38_WitnessChild ==
  \E n \in Nodes :
    /\ tree = "t" /\ parent_[n] = "t" /\ expanded_["t"] /\ expanded_[n]
    /\ hasChildren(TreeState, n)
    /\ getPreviousShownNode(TreeState, getNextShownNode(TreeState, n)) = n

----------------------------------------------------------------------------
(* Blockly.FieldCheckbox (src/unnamed/part_002).  A JavaScript value is    *)
(* written as its source text: true and false are the booleans, 'TRUE' is  *)
(* a string.                                                               *)

\* the values given to the field
JsValues == {"true", "false", "'TRUE'", "'FALSE'", "'true'", "''", "null",
             "undefined", "0", "1"}

\* typeof value == 'string'
isString(value) == value \in {"'TRUE'", "'FALSE'", "'true'", "''"}

\* the values that count as true in a condition
truthy(value) == value \in {"true", "'TRUE'", "'FALSE'", "'true'", "1"}

\* the two booleans
Bool(b) == IF b THEN "true" ELSE "false"

\* the validators a field is given: none, one that lets every value pass,
\* one that aborts every change, one that allows the checked state only
Validators == {"null", "pass", "abort", "checked"}

\* the call of the local validator
localValidator(validator, value) ==
  CASE validator = "abort" -> "null"
    [] validator = "checked" -> "'TRUE'"
    [] OTHER -> value

\* the field as one value
FieldState == [value_ |-> value_, validator_ |-> validator_]

\* Blockly.FieldCheckbox.prototype.convertValueToBool_
convertValueToBool_(value) ==
  IF isString(value) THEN Bool(value = "'TRUE'") ELSE Bool(truthy(value))

\* Blockly.FieldCheckbox.prototype.doClassValidation_
doClassValidation_(opt_newValue) ==
  IF opt_newValue = "true" \/ opt_newValue = "'TRUE'" THEN "'TRUE'"
  ELSE IF opt_newValue = "false" \/ opt_newValue = "'FALSE'" THEN "'FALSE'"
  ELSE "null"

\* Blockly.FieldCheckbox.prototype.doValueUpdate_
doValueUpdate_(f, newValue) ==
  [f EXCEPT !.value_ = convertValueToBool_(newValue)]

\* Blockly.FieldCheckbox.prototype.getValue
getValue(f) == IF truthy(f.value_) THEN "'TRUE'" ELSE "'FALSE'"

\* Blockly.Field.prototype.setValue: null is ignored; the class validation
\* and then the validator of the field, if it has one, replace the value or
\* abort the change with null; a value equal to getValue() changes nothing
setValue(f, newValue) ==
  IF newValue = "null" THEN f
  ELSE LET classValue == doClassValidation_(newValue)
           localValue == IF f.validator_ = "null" THEN classValue
                         ELSE localValidator(f.validator_, classValue)
       IN IF classValue = "null" \/ localValue = "null" THEN f
          ELSE IF getValue(f) = localValue THEN f
          ELSE doValueUpdate_(f, localValue)

showEditor_Check(f) == setValue(f, "true")

\* Blockly.FieldCheckbox.prototype.showEditor_
showEditor_(f) == setValue(f, Bool(~truthy(f.value_)))

\* new Blockly.FieldCheckbox(opt_value, opt_validator): the value defaults
\* to 'FALSE'; Blockly.Field sets the value and then the validator
FieldCheckbox(opt_value, opt_validator) ==
  LET value == IF opt_value \in {"null", "undefined"} THEN "'FALSE'"
               ELSE opt_value
      f == setValue([value_ |-> "null", validator_ |-> "null"], value)
  IN [f EXCEPT !.validator_ = opt_validator]

InitBox ==
  /\ InitConn /\ InitPath /\ InitRows /\ info = NoInfo /\ InitTheme
  /\ InitTight /\ InitIndex /\ InitCheck /\ InitNodes /\ tree = "null"
  /\ \E opt_value \in JsValues, opt_validator \in Validators :
       /\ value_ = FieldCheckbox(opt_value, opt_validator).value_
       /\ validator_ = FieldCheckbox(opt_value, opt_validator).validator_
  /\ boxLog = NoBoxLog

ApplyBox(f, op, newValue, before) ==
  /\ value_' = f.value_
  /\ validator_' = f.validator_
  /\ boxLog' = [op |-> op, newValue |-> newValue, before |-> before]
  /\ UNCHANGED <<connVars, pathVars, rowVars, info, themeVars, tightVars,
                 beyondBox>>

SetValue ==
  \E newValue \in JsValues :
    ApplyBox(setValue(FieldState, newValue), "setValue", newValue,
             <<getValue(FieldState)>>)

\* a click on the field; the log keeps the values before this click and
\* before the click just before it
ShowEditor ==
  ApplyBox(showEditor_(FieldState), "showEditor_", "undefined",
           IF boxLog.op = "showEditor_"
           THEN <<boxLog.before[Len(boxLog.before)], getValue(FieldState)>>
           ELSE <<getValue(FieldState)>>)

\* Blockly.Field.prototype.setValidator
SetValidator ==
  \E handler \in Validators :
    ApplyBox([FieldState EXCEPT !.validator_ = handler], "setValidator",
             "undefined", <<getValue(FieldState)>>)

NextBox == SetValue \/ ShowEditor \/ SetValidator

SpecBox == InitBox /\ [][NextBox]_vars

\* getValue returns 'TRUE' or 'FALSE', and the class validation accepts
\* true, false, 'TRUE' and 'FALSE' only
ValueAndValidation ==
  /\ getValue(FieldState) \in {"'TRUE'", "'FALSE'"}
  /\ value_ \in {"null", "true", "false"}
  /\ \A value \in JsValues :
       doClassValidation_(value) =
         CASE value \in {"true", "'TRUE'"} -> "'TRUE'"
           [] value \in {"false", "'FALSE'"} -> "'FALSE'"
           [] OTHER -> "null"

\* the last click flipped the value, and the second of two clicks brought
\* back the value from before the first
Flipped ==
  /\ getValue(FieldState) # boxLog.before[Len(boxLog.before)]
  /\ Len(boxLog.before) = 2 => getValue(FieldState) = boxLog.before[1]

\* C39 as stated: getValue is 'TRUE' or 'FALSE', the class validation
\* accepts true, false, 'TRUE' and 'FALSE' only, and every click flips the
\* value, so that two clicks restore it.
C39_ClickFlips ==
  /\ ValueAndValidation
  /\ boxLog.op = "showEditor_" => Flipped

\* C39, amended: getValue is 'TRUE' or 'FALSE' and the class validation
\* accepts true, false, 'TRUE' and 'FALSE' only; a click flips the value, and
\* two clicks restore it, when the field has no validator or the validator
\* lets the value pass; a validator that aborts the change leaves the value
\* as it was, and one that allows the checked state only leaves it 'TRUE'
\* once it is 'TRUE'.
C39_ClickFlipsUnlessValidated ==
  /\ ValueAndValidation
  /\ boxLog.op = "showEditor_" =>
       CASE validator_ \in {"null", "pass"} -> Flipped
         [] validator_ = "abort" ->
              getValue(FieldState) = boxLog.before[Len(boxLog.before)]
         [] OTHER -> getValue(FieldState) = "'TRUE'"

\* two clicks on a checked field without a validator: unchecked, then
\* checked again
C39_Witness ==
  /\ boxLog.op = "showEditor_" /\ validator_ = "null"
  /\ boxLog.before = <<"'TRUE'", "'FALSE'">>
  /\ value_ = "true"

\* a click on a field whose validator aborts the change: still unchecked
C39_WitnessAborted ==
  /\ boxLog.op = "showEditor_" /\ validator_ = "abort"
  /\ boxLog.before = <<"'FALSE'">>
  /\ getValue(FieldState) = "'FALSE'"

====
